---- MODULE Spec2Model ----
(***************************************************************************)
(* Model of the two-body fractal rigid-body core of src/src/physics.h     *)
(* (stepPhysics, integrateOrientation, findContactPoint, sierpinskiDE)    *)
(* and of the pieces of src/src/main.cpp that drive it.                   *)
(*                                                                         *)
(* A C++ float is modelled as a binary floating-point number with a       *)
(* 24-bit significand: the pair <<m, e>> stands for m * 2^e, with         *)
(* 2^23 <= |m| < 2^24, or <<0, 0>> for zero.  Every operation rounds its  *)
(* exact result to nearest, ties to even, as IEEE-754 binary32 does.      *)
(* Results below 2^-126 lose precision gradually and those below 2^-150   *)
(* are zero, as binary32's are (a subnormal is written with its leading   *)
(* bit at 2^23 and an exponent below -149).  The exponent has no upper    *)
(* bound (no overflow to infinity); the result of a division by zero and  *)
(* everything computed from it is the one value NaN.                      *)
(***************************************************************************)
EXTENDS Integers, Sequences, FiniteSets, TLC

\* ------------------------------------------------------------------------
\* float: significand width and helpers on integers
\* ------------------------------------------------------------------------

\* number of significand bits of a float
MBits == 24

\* guard bits kept below the significand while adding
GuardBits == 6

P2 == <<1, 2, 4, 8, 16, 32, 64, 128, 256, 512, 1024, 2048, 4096, 8192,
        16384, 32768, 65536, 131072, 262144, 524288, 1048576, 2097152,
        4194304, 8388608, 16777216, 33554432, 67108864, 134217728,
        268435456, 536870912, 1073741824>>

Pow2(n) == P2[n + 1]

Abs(x) == IF x < 0 THEN -x ELSE x

Sgn(x) == IF x < 0 THEN -1 ELSE IF x > 0 THEN 1 ELSE 0

\* number of bits of n, for 0 < n < 2^31
BitLen(n) ==
  IF n >= 65536
  THEN IF n >= 16777216
       THEN IF n >= 268435456
            THEN IF n >= 1073741824 THEN 31 ELSE IF n >= 536870912 THEN 30 ELSE 29
            ELSE IF n >= 67108864
                 THEN IF n >= 134217728 THEN 28 ELSE 27
                 ELSE IF n >= 33554432 THEN 26 ELSE 25
       ELSE IF n >= 1048576
            THEN IF n >= 4194304
                 THEN IF n >= 8388608 THEN 24 ELSE 23
                 ELSE IF n >= 2097152 THEN 22 ELSE 21
            ELSE IF n >= 262144
                 THEN IF n >= 524288 THEN 20 ELSE 19
                 ELSE IF n >= 131072 THEN 18 ELSE 17
  ELSE IF n >= 256
       THEN IF n >= 4096
            THEN IF n >= 16384
                 THEN IF n >= 32768 THEN 16 ELSE 15
                 ELSE IF n >= 8192 THEN 14 ELSE 13
            ELSE IF n >= 1024
                 THEN IF n >= 2048 THEN 12 ELSE 11
                 ELSE IF n >= 512 THEN 10 ELSE 9
       ELSE IF n >= 16
            THEN IF n >= 64
                 THEN IF n >= 128 THEN 8 ELSE 7
                 ELSE IF n >= 32 THEN 6 ELSE 5
            ELSE IF n >= 4
                 THEN IF n >= 8 THEN 4 ELSE 3
                 ELSE IF n >= 2 THEN 2 ELSE 1

\* Body(v): the value of Body with its parameter bound to v, v being
\* evaluated once (a local of the C++ code that is read several times)
With(v, Body(_)) == CHOOSE r \in {Body(x) : x \in {v}} : TRUE

Zero == <<0, 0>>

\* the result of x/0 and of every operation on it (inf and NaN alike)
NaN == <<0, 1>>

IsNaN(a) == a[1] = 0 /\ a[2] # 0

\* the smallest positive float is 2^-TinyExp
TinyExp == 149

\* sign * q * 2^e, q being a rounded significand of kb bits that may have
\* reached 2^kb
Carry(sign, q, e, kb) ==
  IF q = Pow2(kb) THEN <<sign * Pow2(MBits - 1), e + kb - (MBits - 1)>>
  ELSE <<sign * q * Pow2(MBits - kb), e - (MBits - kb)>>

\* round to nearest, ties to even: q the kb kept bits, r the dropped bits,
\* half the weight of the first dropped bit
Round(sign, q, r, half, e, sticky, kb) ==
  Carry(sign, IF r > half \/ (r = half /\ (sticky \/ q % 2 = 1)) THEN q + 1 ELSE q,
        e, kb)

\* the number of low bits of a k-bit magnitude at exponent e that a float
\* cannot keep: those beyond the significand and those below 2^-TinyExp
DroppedBits(e, k) ==
  IF k - MBits >= -(e + TinyExp) THEN k - MBits ELSE -(e + TinyExp)

\* the float nearest to sign * mag * 2^e for a mag of k bits
NormBits(sign, mag, e, sticky, k) ==
  With(DroppedBits(e, k),
       LAMBDA drop :
         IF drop <= 0
         THEN <<sign * mag * Pow2(MBits - k), e - (MBits - k)>>
         ELSE IF drop > k THEN Zero
         ELSE IF drop = k
         THEN IF mag > Pow2(k - 1) \/ sticky
              THEN <<sign * Pow2(MBits - 1), e + k - (MBits - 1)>>
              ELSE Zero
         ELSE Round(sign, mag \div Pow2(drop), mag % Pow2(drop),
                    Pow2(drop - 1), e + drop, sticky, k - drop))

\* the float nearest to sign * mag * 2^e, where 0 <= mag < 2^31 and sticky
\* says that the exact magnitude is a little larger than mag * 2^e
Norm(sign, mag, e, sticky) ==
  IF mag = 0 THEN Zero ELSE NormBits(sign, mag, e, sticky, BitLen(mag))

\* the float of an integer |n| < 2^31
FromInt(n) == Norm(Sgn(n), Abs(n), 0, FALSE)

Neg(a) == <<-a[1], a[2]>>

FAbs(a) == <<Abs(a[1]), a[2]>>

\* the sum of sa * big and sb * (sm + a little, if sticky), times 2^e
AddAligned(sa, sb, big, sm, e, sticky) ==
  With(IF sa = sb THEN big + sm ELSE IF sticky THEN big - sm - 1 ELSE big - sm,
       LAMBDA sum : Norm(IF sum >= 0 THEN sa ELSE sb, Abs(sum), e, sticky))

\* a + b, a's exponent being the larger one
AddOrdered(a, b) ==
  IF a[2] - b[2] > MBits + 2 THEN a
  ELSE AddAligned(Sgn(a[1]), Sgn(b[1]), Abs(a[1]) * Pow2(GuardBits),
                  (Abs(b[1]) * Pow2(GuardBits)) \div Pow2(a[2] - b[2]),
                  a[2] - GuardBits,
                  (Abs(b[1]) * Pow2(GuardBits)) % Pow2(a[2] - b[2]) # 0)

Add(a, b) ==
  IF IsNaN(a) \/ IsNaN(b) THEN NaN
  ELSE IF a[1] = 0 THEN b
  ELSE IF b[1] = 0 THEN a
  ELSE AddOrdered(IF a[2] >= b[2] THEN a ELSE b, IF a[2] >= b[2] THEN b ELSE a)

Sub(a, b) == Add(a, Neg(b))

\* the product of two significands from its partial products
\* hi * 2^24 + mid * 2^12 + lo, cut to 30 bits
MulParts(sign, hi, mid, lo, e) ==
  With(mid + lo \div 4096,
       LAMBDA low : NormBits(sign, hi * 64 + low \div 64, e,
                             low % 64 # 0 \/ lo % 4096 # 0,
                             IF hi * 64 + low \div 64 >= Pow2(29) THEN 30 ELSE 29))

\* the product of the significands ma = a1 * 2^12 + a0 and mb = b1 * 2^12 + b0
MulLimbs(sign, a1, a0, b1, b0, e) ==
  MulParts(sign, a1 * b1, a1 * b0 + a0 * b1, a0 * b0, e)

Mul(a, b) ==
  IF IsNaN(a) \/ IsNaN(b) THEN NaN
  ELSE IF a[1] = 0 \/ b[1] = 0 THEN Zero
  ELSE MulLimbs(Sgn(a[1]) * Sgn(b[1]), Abs(a[1]) \div 4096, Abs(a[1]) % 4096,
                Abs(b[1]) \div 4096, Abs(b[1]) % 4096, a[2] + b[2] + 18)

\* long division of the significands, seven quotient bits a round:
\* <<q, r>> with q = floor(ma * 2^(7*rounds) / mb) and r the remainder
RECURSIVE DivRounds(_, _, _, _)
DivRounds(q, r, mb, rounds) ==
  IF rounds = 0 THEN <<q, r>>
  ELSE DivRounds(q * 128 + (r * 128) \div mb, (r * 128) % mb, mb, rounds - 1)

DivQuotient(sign, qr, e) == Norm(sign, qr[1], e, qr[2] # 0)

Div(a, b) ==
  IF IsNaN(a) \/ IsNaN(b) \/ b[1] = 0 THEN NaN
  ELSE IF a[1] = 0 THEN Zero
  ELSE DivQuotient(Sgn(a[1]) * Sgn(b[1]),
                   DivRounds(Abs(a[1]) \div Abs(b[1]), Abs(a[1]) % Abs(b[1]),
                             Abs(b[1]), 4),
                   a[2] - b[2] - 28)

\* digit-by-digit square root of m * 4^13, two radicand bits a step
\* (i counts the steps left; the first 13 take their bits from m)
RECURSIVE SqrtDigits(_, _, _, _)
SqrtDigits(m, root, rem, i) ==
  IF i = 0 THEN <<root, rem>>
  ELSE With(rem * 4 + (IF i > 13 THEN (m \div Pow2(2 * (i - 14))) % 4 ELSE 0),
            LAMBDA r4 : IF r4 >= root * 4 + 1
                        THEN SqrtDigits(m, root * 2 + 1, r4 - (root * 4 + 1), i - 1)
                        ELSE SqrtDigits(m, root * 2, r4, i - 1))

SqrtRoot(sr, e) == Norm(1, sr[1], e, sr[2] # 0)

\* std::sqrt: NaN for a negative argument
Sqrt(a) ==
  IF IsNaN(a) \/ a[1] < 0 THEN NaN
  ELSE IF a[1] = 0 THEN Zero
  ELSE IF a[2] % 2 = 1
       THEN SqrtRoot(SqrtDigits(a[1] * 2, 0, 0, 26), (a[2] - 1 - 26) \div 2)
       ELSE SqrtRoot(SqrtDigits(a[1], 0, 0, 26), (a[2] - 26) \div 2)

\* comparisons; every comparison with NaN is false
Lt(a, b) == ~IsNaN(a) /\ ~IsNaN(b) /\ Sub(a, b)[1] < 0

Le(a, b) == ~IsNaN(a) /\ ~IsNaN(b) /\ Sub(a, b)[1] <= 0

Gt(a, b) == Lt(b, a)

\* the float literal num/den (a decimal literal rounded to nearest)
Lit(num, den) == Div(FromInt(num), FromInt(den))

\* ------------------------------------------------------------------------
\* float literals of physics.h
\* ------------------------------------------------------------------------

F0 == Zero

F1 == FromInt(1)

F2 == FromInt(2)

FHalf == Lit(1, 2)

\* 1e-6f: the softening term of the gravity denominator, the tangent cutoff
GravEps == Lit(1, 1000000)

\* const float eps = 0.001f
DeEps == Lit(1, 1000)

\* 0.0005f, the march's stop threshold
MarchEps == Lit(5, 10000)

\* const float mu = 0.5f
Mu == FHalf

\* the march's iteration budget
MarchIters == 16

\* the fold count of sierpinskiDE
SierpIters == 6

\* ------------------------------------------------------------------------
\* Vec3 <<x, y, z>> and Quat <<w, x, y, z>>
\* ------------------------------------------------------------------------

VZero == <<F0, F0, F0>>

VAdd(u, v) == <<Add(u[1], v[1]), Add(u[2], v[2]), Add(u[3], v[3])>>

VSub(u, v) == <<Sub(u[1], v[1]), Sub(u[2], v[2]), Sub(u[3], v[3])>>

VScale(u, s) == <<Mul(u[1], s), Mul(u[2], s), Mul(u[3], s)>>

VDivS(u, s) == <<Div(u[1], s), Div(u[2], s), Div(u[3], s)>>

Dot(u, v) == Add(Add(Mul(u[1], v[1]), Mul(u[2], v[2])), Mul(u[3], v[3]))

Length(u) == Sqrt(Dot(u, u))

\* normalize without the l>0 test
NormalizeUnguarded(u) == VDivS(u, Length(u))

\* float l = length(a); return (l>0)? a/l : Vec3{0,0,0}
Normalize(u) ==
  With(Length(u), LAMBDA l : IF Gt(l, F0) THEN VDivS(u, l) ELSE VZero)

Cross(u, v) ==
  <<Sub(Mul(u[2], v[3]), Mul(u[3], v[2])),
    Sub(Mul(u[3], v[1]), Mul(u[1], v[3])),
    Sub(Mul(u[1], v[2]), Mul(u[2], v[1]))>>

QuatMul(p, q) ==
  <<Sub(Sub(Sub(Mul(p[1], q[1]), Mul(p[2], q[2])), Mul(p[3], q[3])), Mul(p[4], q[4])),
    Sub(Add(Add(Mul(p[1], q[2]), Mul(p[2], q[1])), Mul(p[3], q[4])), Mul(p[4], q[3])),
    Add(Add(Sub(Mul(p[1], q[3]), Mul(p[2], q[4])), Mul(p[3], q[1])), Mul(p[4], q[2])),
    Add(Sub(Add(Mul(p[1], q[4]), Mul(p[2], q[3])), Mul(p[3], q[2])), Mul(p[4], q[1]))>>

\* q.w*q.w + q.x*q.x + q.y*q.y + q.z*q.z
QuatNormSq(q) ==
  Add(Add(Add(Mul(q[1], q[1]), Mul(q[2], q[2])), Mul(q[3], q[3])), Mul(q[4], q[4]))

\* QuatNormalize with the division by the length left out
QuatNormalizeSkipped(q) == q

QuatNormalize(q) ==
  With(Sqrt(QuatNormSq(q)),
       LAMBDA len : <<Div(q[1], len), Div(q[2], len), Div(q[3], len), Div(q[4], len)>>)

QuatConjugate(q) == <<q[1], Neg(q[2]), Neg(q[3]), Neg(q[4])>>

RotateVec(q, v) ==
  With(QuatMul(QuatMul(q, <<F0, v[1], v[2], v[3]>>),
               <<q[1], Neg(q[2]), Neg(q[3]), Neg(q[4])>>),
       LAMBDA r : <<r[2], r[3], r[4]>>)

RotateInv(q, v) == RotateVec(QuatConjugate(q), v)

\* ------------------------------------------------------------------------
\* sierpinskiDE
\* ------------------------------------------------------------------------

\* if(p.x < p.y) std::swap(p.x, p.y)
SwapXY(p) == IF Lt(p[1], p[2]) THEN <<p[2], p[1], p[3]>> ELSE p

\* if(p.x < p.z) std::swap(p.x, p.z)
SwapXZ(p) == IF Lt(p[1], p[3]) THEN <<p[3], p[2], p[1]>> ELSE p

\* if(p.y < p.z) std::swap(p.y, p.z)
SwapYZ(p) == IF Lt(p[2], p[3]) THEN <<p[1], p[3], p[2]>> ELSE p

\* SierpSort without the fabs calls
SierpSortSigned(p) == SwapYZ(SwapXZ(SwapXY(p)))

\* the fabs calls and the three compare-and-swap steps of one fold
SierpSort(p) == SwapYZ(SwapXZ(SwapXY(<<FAbs(p[1]), FAbs(p[2]), FAbs(p[3])>>)))

\* SCALE*x - (SCALE - 1.0f)*OFFSET with SCALE = 2.0f, OFFSET = 1.0f
SierpAffine(c) == Sub(Mul(F2, c), Mul(Sub(F2, F1), F1))

SierpScale(p) == <<SierpAffine(p[1]), SierpAffine(p[2]), SierpAffine(p[3])>>

\* one iteration of the loop, on the loop state [p, m, i]
SierpFold(st) ==
  [p |-> SierpScale(SierpSort(st.p)), m |-> Mul(st.m, F2), i |-> st.i + 1]

\* the loop: for(int i=0;i<6;i++)
RECURSIVE SierpLoop(_)
SierpLoop(st) == IF st.i < SierpIters THEN SierpLoop(SierpFold(st)) ELSE st

\* return length(p)/m
SierpResult(st) == Div(Length(st.p), st.m)

\* float m = 1.0f; int i = 0
SierpStart(p) == [p |-> p, m |-> F1, i |-> 0]

SierpinskiDE(p) == SierpResult(SierpLoop(SierpStart(p)))

\* ------------------------------------------------------------------------
\* FractalObject: [position, velocity, angularVelocity, orientation,
\*                 radius, mass, inertia, de]; de names the function the
\* pointer holds: "null" (no function), "sierpinski"
\* ------------------------------------------------------------------------

\* a.de ? a.de(l / a.radius) * a.radius : 0.f
DEValue(o, l) ==
  IF o.de = "null" THEN F0
  ELSE Mul(SierpinskiDE(VDivS(l, o.radius)), o.radius)

\* orientation += 0.5f * dq * dt, component by component
QuatAdvance(q, dq, d) ==
  <<Add(q[1], Mul(Mul(FHalf, dq[1]), d)),
    Add(q[2], Mul(Mul(FHalf, dq[2]), d)),
    Add(q[3], Mul(Mul(FHalf, dq[3]), d)),
    Add(q[4], Mul(Mul(FHalf, dq[4]), d))>>

\* QuatDerivative with 1 for the scalar part of wq
QuatDerivativeScalar(o) ==
  QuatMul(<<F1, o.angularVelocity[1], o.angularVelocity[2], o.angularVelocity[3]>>,
          o.orientation)

\* Quat wq{0.f, w.x, w.y, w.z}; Quat dq = quatMul(wq, obj.orientation)
QuatDerivative(o) ==
  QuatMul(<<F0, o.angularVelocity[1], o.angularVelocity[2], o.angularVelocity[3]>>,
          o.orientation)

IntegrateOrientation(o, d) ==
  [o EXCEPT !.orientation =
     QuatNormalize(QuatAdvance(o.orientation, QuatDerivative(o), d))]

\* the end of the march loop's body at parameter t, d being da + db:
\* [t, brk] - the new t and whether the loop was left by break
\* MarchAdvance stepping by the whole sum d
MarchAdvanceFull(t, d) ==
  IF Lt(d, MarchEps) THEN [t |-> t, brk |-> TRUE]
  ELSE [t |-> Add(t, d), brk |-> FALSE]

MarchAdvance(t, d) ==
  IF Lt(d, MarchEps) THEN [t |-> t, brk |-> TRUE]
  ELSE [t |-> Add(t, Mul(d, FHalf)), brk |-> FALSE]

MarchBody(t, da, db) == MarchAdvance(t, Add(da, db))

\* the point the march evaluates at parameter t
MarchPoint(o, dir, t) == VAdd(o.position, VScale(dir, t))

\* the loop body at the point p = a.position + dir * t
MarchEval(oa, ob, t, p) ==
  MarchBody(t, DEValue(oa, RotateInv(oa.orientation, VSub(p, oa.position))),
               DEValue(ob, RotateInv(ob.orientation, VSub(p, ob.position))))

\* MarchContinue without the iteration budget
MarchContinueUnbounded(i, t, tMax) == Lt(t, tMax)

\* the loop condition: i<16 && t < tMax
MarchContinue(i, t, tMax) == i < MarchIters /\ Lt(t, tMax)

\* the march loop: [t, i, evals] at its exit, evals counting the
\* evaluations of the pair of distance estimators
RECURSIVE MarchLoop(_, _, _, _, _, _)
MarchLoop(oa, ob, dir, tMax, t, i) ==
  IF MarchContinue(i, t, tMax)
  THEN With(MarchEval(oa, ob, t, MarchPoint(oa, dir, t)),
            LAMBDA r : IF r.brk THEN [t |-> t, i |-> i, evals |-> i + 1]
                       ELSE MarchLoop(oa, ob, dir, tMax, r.t, i + 1))
  ELSE [t |-> t, i |-> i, evals |-> i]

\* MarchDir marching along the x axis whatever the positions
MarchDirAxis(oa, ob) == <<F1, F0, F0>>

MarchDir(oa, ob) == Normalize(VSub(ob.position, oa.position))

\* MarchTMax reaching to the centre of B
MarchTMaxCentre(oa, ob) == Length(VSub(ob.position, oa.position))

MarchTMax(oa, ob) == Sub(Length(VSub(ob.position, oa.position)), ob.radius)

\* MarchReturn giving back the point the march started from
MarchReturnStart(oa, dir, r) == MarchPoint(oa, dir, oa.radius)

\* return a.position + dir * t
MarchReturn(oa, dir, r) == MarchPoint(oa, dir, r.t)

FindContactFrom(oa, ob, dir) ==
  MarchReturn(oa, dir, MarchLoop(oa, ob, dir, MarchTMax(oa, ob), oa.radius, 0))

FindContactPoint(oa, ob) == FindContactFrom(oa, ob, MarchDir(oa, ob))

\* ------------------------------------------------------------------------
\* stepPhysics, phase by phase
\* ------------------------------------------------------------------------

\* n * forceMag with n = diff / sqrt(distSq)
ForceAt(diff, distSq, oa, ob, g) ==
  VScale(VDivS(diff, Sqrt(distSq)), Div(Mul(Mul(g, oa.mass), ob.mass), distSq))

\* ForceAlong without the 1e-6f
ForceAlongBare(diff, oa, ob, g) == ForceAt(diff, Dot(diff, diff), oa, ob, g)

\* distSq = dot(diff,diff) + 1e-6f
ForceAlong(diff, oa, ob, g) == ForceAt(diff, Add(Dot(diff, diff), GravEps), oa, ob, g)

\* the force vector of the gravity phase
GravityForce(oa, ob, g) == ForceAlong(VSub(ob.position, oa.position), oa, ob, g)

\* GravityA with the force pushing A away from B
GravityAAway(oa, force, d) ==
  [oa EXCEPT !.velocity = VSub(oa.velocity, VScale(VDivS(force, oa.mass), d))]

\* a.velocity = a.velocity + force / a.mass * dt
GravityA(oa, force, d) ==
  [oa EXCEPT !.velocity = VAdd(oa.velocity, VScale(VDivS(force, oa.mass), d))]

\* GravityB with the force applied to B in A's direction
GravityBSameSign(ob, force, d) ==
  [ob EXCEPT !.velocity = VAdd(ob.velocity, VScale(VDivS(force, ob.mass), d))]

\* b.velocity = b.velocity - force / b.mass * dt
GravityB(ob, force, d) ==
  [ob EXCEPT !.velocity = VSub(ob.velocity, VScale(VDivS(force, ob.mass), d))]

\* position = position + velocity * dt
IntegratePosition(o, d) ==
  [o EXCEPT !.position = VAdd(o.position, VScale(o.velocity, d))]

\* dist = length(diff) of the bounding sphere test
BroadDist(oa, ob) == Length(VSub(ob.position, oa.position))

\* n = (dist>0.f)? diff/dist : Vec3{1,0,0}
NormalOf(diff, dist) == IF Gt(dist, F0) THEN VDivS(diff, dist) ELSE <<F1, F0, F0>>

BroadNormal(oa, ob, dist) == NormalOf(VSub(ob.position, oa.position), dist)

\* Overlap with the diameters in place of the radii
OverlapDiameters(oa, ob, dist) == Le(dist, Mul(F2, Add(oa.radius, ob.radius)))

\* Overlap that leaves out spheres that exactly touch
OverlapStrict(oa, ob, dist) == Lt(dist, Add(oa.radius, ob.radius))

\* dist <= a.radius + b.radius
Overlap(oa, ob, dist) == Le(dist, Add(oa.radius, ob.radius))

\* the DE value of body o at the contact point, r = contact - o.position
ContactDE(o, r) == DEValue(o, RotateInv(o.orientation, r))

\* Touching with || written for &&
TouchingEither(da, db) == Lt(da, DeEps) \/ Lt(db, DeEps)

\* da < eps && db < eps
Touching(da, db) == Lt(da, DeEps) /\ Lt(db, DeEps)

\* velocity of the body's material point at lever arm r
PointVelocity(o, r) == VAdd(o.velocity, Cross(o.angularVelocity, r))

\* Approaching with the comparison turned round
ApproachingReversed(rel) == Gt(rel, F0)

\* rel < 0.0f
Approaching(rel) == Lt(rel, F0)

\* 1/mA + 1/mB + raCn*raCn/IA + rbCn*rbCn/IB
InvMassOf(oa, ob, raCn, rbCn) ==
  Add(Add(Add(Div(F1, oa.mass), Div(F1, ob.mass)),
          Div(Mul(raCn, raCn), oa.inertia)),
      Div(Mul(rbCn, rbCn), ob.inertia))

InvMass(oa, ob, ra, rb, n) ==
  InvMassOf(oa, ob, Length(Cross(ra, n)), Length(Cross(rb, n)))

\* j = -(1.0f + 1.0f) * rel / invMass
ImpulseJ(rel, invMass) == Div(Mul(Neg(Add(F1, F1)), rel), invMass)

\* body A takes +impulse at lever arm ra
ApplyImpulseA(oa, ra, imp) ==
  [oa EXCEPT !.velocity = VAdd(oa.velocity, VDivS(imp, oa.mass)),
             !.angularVelocity =
                VAdd(oa.angularVelocity, VDivS(Cross(ra, imp), oa.inertia))]

\* body B takes -impulse at lever arm rb
ApplyImpulseB(ob, rb, imp) ==
  [ob EXCEPT !.velocity = VSub(ob.velocity, VDivS(imp, ob.mass)),
             !.angularVelocity =
                VSub(ob.angularVelocity, VDivS(Cross(rb, imp), ob.inertia))]

\* rv - n * dot(rv, n)
Tangent(rv, n) == VSub(rv, VScale(n, Dot(rv, n)))

\* Clamp that lets every value through
ClampNone(v, lo, hi) == v

\* std::clamp(v, lo, hi)
Clamp(v, lo, hi) == IF Lt(v, lo) THEN lo ELSE IF Lt(hi, v) THEN hi ELSE v

\* jt = -dot(rv, tangent) / invMass, clamped to [-j*mu, j*mu]
FrictionJt(rv, tn, invMass, j) ==
  Clamp(Div(Neg(Dot(rv, tn)), invMass), Mul(Neg(j), Mu), Mul(j, Mu))

\* tangent * jt, tn being the normalised tangent
FrictionAlong(rv, tn, invMass, j) == VScale(tn, FrictionJt(rv, tn, invMass, j))

\* the friction impulse vector, tangent being the unnormalised tangent
\* with tlen = |tangent| > 1e-6f
FrictionImpulse(rv, tangent, tlen, invMass, j) ==
  FrictionAlong(rv, VDivS(tangent, tlen), invMass, j)

\* Correction moving each body by the whole penetration depth
CorrectionFull(oa, ob, n, dist) ==
  VScale(n, Sub(Add(oa.radius, ob.radius), dist))

\* corr = n * (pen * 0.5f) with pen = a.radius + b.radius - dist
Correction(oa, ob, n, dist) ==
  VScale(n, Mul(Sub(Add(oa.radius, ob.radius), dist), FHalf))

\* ------------------------------------------------------------------------
\* stepPhysics as one function of its arguments: <<a, b>> at the return
\* ------------------------------------------------------------------------

\* a.position = a.position - corr; b.position = b.position + corr
StepCorrect(oa, ob, n, dist) ==
  With(Correction(oa, ob, n, dist),
       LAMBDA corr : <<[oa EXCEPT !.position = VSub(oa.position, corr)],
                       [ob EXCEPT !.position = VAdd(ob.position, corr)]>>)

\* the friction block, then the positional correction
StepFriction(oa, ob, dist, n, ra, rb, rv, invMass, j) ==
  With(Tangent(rv, n),
       LAMBDA tangent :
         With(Length(tangent),
              LAMBDA tlen :
                IF Gt(tlen, GravEps)
                THEN With(FrictionImpulse(rv, tangent, tlen, invMass, j),
                          LAMBDA f : StepCorrect(ApplyImpulseA(oa, ra, f),
                                                 ApplyImpulseB(ob, rb, f), n, dist))
                ELSE StepCorrect(oa, ob, n, dist)))

\* j, impulse and the four updates of the normal impulse
StepImpulse(oa, ob, dist, n, ra, rb, rv, rel, invMass) ==
  With(ImpulseJ(rel, invMass),
       LAMBDA j : StepFriction(ApplyImpulseA(oa, ra, VScale(n, j)),
                               ApplyImpulseB(ob, rb, VScale(n, j)),
                               dist, n, ra, rb, rv, invMass, j))

\* rel and if(rel < 0.0f)
StepResponse(oa, ob, dist, n, ra, rb, rv) ==
  With(Dot(rv, n),
       LAMBDA rel : IF Approaching(rel)
                    THEN StepImpulse(oa, ob, dist, n, ra, rb, rv, rel,
                                     InvMass(oa, ob, ra, rb, n))
                    ELSE <<oa, ob>>)

\* da, db and if(da < eps && db < eps)
StepContact(oa, ob, dist, n, ra, rb) ==
  IF Touching(ContactDE(oa, ra), ContactDE(ob, rb))
  THEN StepResponse(oa, ob, dist, n, ra, rb,
                    VSub(PointVelocity(ob, rb), PointVelocity(oa, ra)))
  ELSE <<oa, ob>>

\* contact, ra, rb
StepNarrow(oa, ob, dist, n) ==
  With(FindContactPoint(oa, ob),
       LAMBDA contact : StepContact(oa, ob, dist, n, VSub(contact, oa.position),
                                    VSub(contact, ob.position)))

\* the bounding sphere test
StepCollide(oa, ob) ==
  With(BroadDist(oa, ob),
       LAMBDA dist : IF Overlap(oa, ob, dist)
                     THEN StepNarrow(oa, ob, dist, BroadNormal(oa, ob, dist))
                     ELSE <<oa, ob>>)

\* integrate motion
StepIntegrate(oa, ob, d) ==
  StepCollide(IntegrateOrientation(IntegratePosition(oa, d), d),
              IntegrateOrientation(IntegratePosition(ob, d), d))

StepPhysics(oa, ob, d, g) ==
  With(GravityForce(oa, ob, g),
       LAMBDA force : StepIntegrate(GravityA(oa, force, d), GravityB(ob, force, d), d))

\* ------------------------------------------------------------------------
\* state
\* ------------------------------------------------------------------------

VARIABLES
  a, b,     \* the two FractalObjects (objA, objB of main)
  dt, G,    \* the arguments of the stepPhysics call in progress
  pc,       \* the position inside stepPhysics
  tick,     \* number of stepPhysics calls started
  loc,      \* the locals of stepPhysics that outlive a phase
  h,        \* history: snapshots of the bodies and counters of the tick
  march,    \* the state of a direct findContactPoint call
  frame,    \* the render loop of main: host position, buffers, GPU queue
  fold      \* the state of a direct sierpinskiDE call

stepVars == <<a, b, dt, G, pc, tick, loc, h>>

vars == <<a, b, dt, G, pc, tick, loc, h, march, frame, fold>>

\* ------------------------------------------------------------------------
\* bounds and inputs
\* ------------------------------------------------------------------------

\* stepPhysics calls in one behaviour
MaxTicks == 2

Vec(nx, ny, nz, den) == <<Lit(nx, den), Lit(ny, den), Lit(nz, den)>>

QIdentity == <<F1, F0, F0, F0>>

Body(pos, vel, w, q, r, m, in, de) ==
  [position |-> pos, velocity |-> vel, angularVelocity |-> w,
   orientation |-> q, radius |-> r, mass |-> m, inertia |-> in, de |-> de]

\* what a pointer of type DEFunc holds in main.cpp, or no function
DEKinds == {"null", "sierpinski"}

\* centres of A and B: far apart (the concrete scenario), overlapping on the
\* x axis, just not touching, overlapping off the axes
PosPairs ==
  { <<Vec(-2, 0, 0, 1), Vec(2, 0, 0, 1)>>,
    <<Vec(-1, 0, 0, 2), Vec(1, 0, 0, 2)>>,
    <<Vec(-101, 0, 0, 100), Vec(101, 0, 0, 100)>>,
    <<Vec(0, 0, 0, 1), Vec(3, 4, 12, 10)>> }

\* velocities of A and B: at rest, head-on, separating, sliding
VelPairs ==
  { <<Vec(0, 0, 0, 1), Vec(0, 0, 0, 1)>>,
    <<Vec(1, 0, 0, 1), Vec(-1, 0, 0, 1)>>,
    <<Vec(-1, 0, 0, 1), Vec(1, 0, 0, 1)>>,
    <<Vec(2, 1, 0, 2), Vec(-1, 0, 1, 2)>> }

\* angular velocities: none, those of main.cpp, |w| = 10
AngPairs ==
  { <<Vec(0, 0, 0, 1), Vec(0, 0, 0, 1)>>,
    <<Vec(0, 1, 0, 2), Vec(0, -1, 0, 2)>>,
    <<Vec(6, 0, 8, 1), Vec(0, 0, 0, 1)>> }

MassPairs == { <<Lit(1, 1), Lit(1, 1)>>, <<Lit(2, 1), Lit(1, 1)>>, <<Lit(1, 2), Lit(3, 1)>> }

\* B rests against A in the direction (63, 11, 3), where the folds of
\* sierpinskiDE bring both contact points close to the origin
VertexContact ==
  <<<<Vec(0, 0, 0, 1), Vec(1968020, 343620, 93710, 1000000)>>,
    <<Vec(0, 0, 0, 1), Vec(0, 0, 0, 1)>>,
    <<Vec(0, 0, 0, 1), Vec(0, 0, 0, 1)>>>>

\* bodies with the same centre, at rest and moving, and bodies 1e-4 apart
Coincident ==
  { <<<<Vec(1, 2, 3, 4), Vec(1, 2, 3, 4)>>, <<VZero, VZero>>, <<VZero, VZero>>>>,
    <<<<Vec(1, 2, 3, 4), Vec(1, 2, 3, 4)>>,
      <<Vec(1, 0, 0, 1), Vec(-1, 0, 0, 1)>>, <<Vec(0, 1, 0, 2), VZero>>>>,
    <<<<VZero, Vec(1, 0, 0, 10000)>>, <<VZero, VZero>>, <<VZero, VZero>>>> }

\* bodies at rest that unit masses, G = 1 and dt = 0.016 bring to a
\* distance of exactly 2
Grazing ==
  <<<<Vec(-8389145, 0, 0, 8388608), Vec(8389145, 0, 0, 8388608)>>,
    <<VZero, VZero>>, <<VZero, VZero>>>>

\* <<positions, velocities, angular velocities>> of the two bodies
Kinematics ==
  (PosPairs \X VelPairs \X AngPairs) \cup {VertexContact} \cup Coincident \cup {Grazing}

Steps == { Lit(16, 1000), Lit(5, 100) }

\* the arguments <<dt, G>> of the calls: main's headless step with the
\* default G = 1.0f, and a longer step under a stronger G
Calls == { <<Lit(16, 1000), F1>>, <<Lit(5, 100), Lit(5, 2)>> }

\* inertia of both bodies in main.cpp
MainInertia == Lit(4, 10)

NoLocals ==
  [n |-> VZero, dist |-> F0, contact |-> VZero, ra |-> VZero, rb |-> VZero,
   da |-> F0, db |-> F0, va |-> VZero, vb |-> VZero, rel |-> F0,
   invMass |-> F0, j |-> F0, jt |-> F0, dir |-> VZero, tMax |-> F0, evals |-> 0]

\* the history of a tick that starts with the bodies oa, ob
NewHistory(oa, ob) ==
  [a0 |-> oa, b0 |-> ob, aG |-> oa, bG |-> ob, aI |-> oa, bI |-> ob,
   posA |-> 0, posB |-> 0, rotA |-> 0, rotB |-> 0, log |-> <<>>,
   overlap |-> FALSE, touching |-> FALSE, impulse |-> FALSE, friction |-> FALSE]

Idle == [pc |-> "idle"]

\* no render loop is running
NoFrame == [pc |-> "none"]

\* sierpinskiDE is not being called directly
NoFold == [pc |-> "none"]

\* the smallest positive float, 2^-149
TinySpeed == <<Pow2(MBits - 1), -TinyExp - (MBits - 1)>>

\* overlapping bodies of mass 0.5 without gravity (G = 0), A creeping
\* toward B at the smallest speed a float can hold
Creeping ==
  [a |-> Body(Vec(-1, 0, 0, 2), <<TinySpeed, F0, F0>>, VZero, QIdentity, F1,
              FHalf, MainInertia, "null"),
   b |-> Body(Vec(1, 0, 0, 2), VZero, VZero, QIdentity, F1, FHalf, MainInertia,
              "null"),
   dt |-> Lit(16, 1000), G |-> F0]

\* bodies of unit mass without gravity (G = 0) that fly toward each other
\* and whose centres the integration of the first tick brings to the same
\* point: -dt + 1*dt = 0 = dt - 1*dt
Meeting ==
  [a |-> Body(<<Neg(Lit(16, 1000)), F0, F0>>, Vec(1, 0, 0, 1), VZero, QIdentity,
              F1, F1, MainInertia, "null"),
   b |-> Body(<<Lit(16, 1000), F0, F0>>, Vec(-1, 0, 0, 1), VZero, QIdentity,
              F1, F1, MainInertia, "null"),
   dt |-> Lit(16, 1000), G |-> F0]

\* x * 2^k
Ldexp(x, k) == <<x[1], x[2] + k>>

\* bodies of unit mass without gravity whose centres are 1.2 * 2^-75 apart,
\* a distance whose square is below the smallest float, A creeping toward B
Brushing ==
  [a |-> Body(VZero, <<Ldexp(F1, -140), F0, F0>>, VZero, QIdentity, F1, F1,
              MainInertia, "null"),
   b |-> Body(<<Ldexp(Lit(6, 5), -75), F0, F0>>, VZero, VZero, QIdentity, F1, F1,
              MainInertia, "null"),
   dt |-> Lit(16, 1000), G |-> F0]

\* bodies at rest without gravity whose radii 1 - 2^-24 and 5 * 2^-25 add
\* up, in float, to the distance 1 + 2^-23 of their centres
Lopsided ==
  [a |-> Body(VZero, VZero, VZero, QIdentity, Sub(F1, Ldexp(F1, -24)), F1,
              MainInertia, "sierpinski"),
   b |-> Body(<<Add(F1, Ldexp(F1, -23)), F0, F0>>, VZero, VZero, QIdentity,
              Ldexp(Lit(5, 1), -25), F1, MainInertia, "sierpinski"),
   dt |-> Lit(16, 1000), G |-> F0]

Init ==
  /\ \/ /\ \E k \in Kinematics, mp \in MassPairs, ka \in DEKinds, kb \in DEKinds :
            /\ a = Body(k[1][1], k[2][1], k[3][1], QIdentity, F1, mp[1], MainInertia, ka)
            /\ b = Body(k[1][2], k[2][2], k[3][2], QIdentity, F1, mp[2], MainInertia, kb)
        /\ \E call \in Calls : dt = call[1] /\ G = call[2]
     \/ \E s \in {Creeping, Meeting, Brushing, Lopsided} :
          /\ a = s.a /\ b = s.b
          /\ dt = s.dt /\ G = s.G
  /\ pc = "gravity"
  /\ tick = 1
  /\ loc = NoLocals
  /\ h = NewHistory(a, b)
  /\ march = Idle
  /\ frame = NoFrame
  /\ fold = NoFold

\* ------------------------------------------------------------------------
\* one action per phase of stepPhysics
\* ------------------------------------------------------------------------

Logged(phase) == [h EXCEPT !.log = Append(@, phase)]

Gravity ==
  /\ pc = "gravity"
  /\ \E force \in {GravityForce(a, b, G)} :
       /\ a' = GravityA(a, force, dt)
       /\ b' = GravityB(b, force, dt)
  /\ h' = [Logged("gravity") EXCEPT !.aG = a', !.bG = b']
  /\ pc' = "integrate"
  /\ UNCHANGED <<dt, G, tick, loc, march, frame, fold>>

\* Integrate moving the bodies with the velocities from before the gravity
\* update
IntegrateStale ==
  /\ pc = "integrate"
  /\ a' = [a EXCEPT !.position = VAdd(a.position, VScale(h.a0.velocity, dt))]
  /\ b' = [b EXCEPT !.position = VAdd(b.position, VScale(h.b0.velocity, dt))]
  /\ h' = [Logged("position") EXCEPT !.posA = @ + 1, !.posB = @ + 1]
  /\ pc' = "orient"
  /\ UNCHANGED <<dt, G, tick, loc, march, frame, fold>>

Integrate ==
  /\ pc = "integrate"
  /\ a' = IntegratePosition(a, dt)
  /\ b' = IntegratePosition(b, dt)
  /\ h' = [Logged("position") EXCEPT !.posA = @ + 1, !.posB = @ + 1]
  /\ pc' = "orient"
  /\ UNCHANGED <<dt, G, tick, loc, march, frame, fold>>

\* Orient integrating the orientation of A a second time
OrientTwice ==
  /\ pc = "orient"
  /\ a' = IntegrateOrientation(IntegrateOrientation(a, dt), dt)
  /\ b' = IntegrateOrientation(b, dt)
  /\ h' = [Logged("orientation") EXCEPT !.rotA = @ + 2, !.rotB = @ + 1,
                                        !.aI = a', !.bI = b']
  /\ pc' = "broad"
  /\ UNCHANGED <<dt, G, tick, loc, march, frame, fold>>

Orient ==
  /\ pc = "orient"
  /\ a' = IntegrateOrientation(a, dt)
  /\ b' = IntegrateOrientation(b, dt)
  /\ h' = [Logged("orientation") EXCEPT !.rotA = @ + 1, !.rotB = @ + 1,
                                        !.aI = a', !.bI = b']
  /\ pc' = "broad"
  /\ UNCHANGED <<dt, G, tick, loc, march, frame, fold>>

\* BroadPhase with n a static local, initialised by the first call only
BroadPhaseStatic ==
  /\ pc = "broad"
  /\ \E dist \in {BroadDist(a, b)} :
       /\ loc' = [loc EXCEPT !.dist = dist,
                             !.n = IF tick = 1 THEN BroadNormal(a, b, dist) ELSE @]
       /\ \E hit \in {Overlap(a, b, dist)} :
            /\ h' = [Logged("broad") EXCEPT !.overlap = hit]
            /\ pc' = IF hit THEN "narrow" ELSE "done"
  /\ UNCHANGED <<a, b, dt, G, tick, march, frame, fold>>

BroadPhase ==
  /\ pc = "broad"
  /\ \E dist \in {BroadDist(a, b)} :
       /\ loc' = [loc EXCEPT !.dist = dist, !.n = BroadNormal(a, b, dist)]
       /\ \E hit \in {Overlap(a, b, dist)} :
            /\ h' = [Logged("broad") EXCEPT !.overlap = hit]
            /\ pc' = IF hit THEN "narrow" ELSE "done"
  /\ UNCHANGED <<a, b, dt, G, tick, march, frame, fold>>

\* findContactPoint(a,b) with its locals dir and tMax and the number of
\* executions of its loop body, then ra, rb, da, db and the test
NarrowPhase ==
  /\ pc = "narrow"
  /\ \E dir \in {MarchDir(a, b)}, tMax \in {MarchTMax(a, b)} :
       \E r \in {MarchLoop(a, b, dir, tMax, a.radius, 0)} :
         \E contact \in {MarchReturn(a, dir, r)} :
           \E ra \in {VSub(contact, a.position)}, rb \in {VSub(contact, b.position)} :
             \E da \in {ContactDE(a, ra)}, db \in {ContactDE(b, rb)} :
               /\ loc' = [loc EXCEPT !.contact = contact, !.ra = ra, !.rb = rb,
                                     !.da = da, !.db = db, !.dir = dir,
                                     !.tMax = tMax, !.evals = r.evals]
               /\ \E hit \in {Touching(da, db)} :
                    /\ h' = [Logged("narrow") EXCEPT !.touching = hit]
                    /\ pc' = IF hit THEN "response" ELSE "done"
  /\ UNCHANGED <<a, b, dt, G, tick, march, frame, fold>>

\* Response going on to the positional correction when rel >= 0
ResponseCorrectsAnyway ==
  /\ pc = "response"
  /\ \E va \in {PointVelocity(a, loc.ra)}, vb \in {PointVelocity(b, loc.rb)} :
       \E rel \in {Dot(VSub(vb, va), loc.n)} :
         /\ loc' = [loc EXCEPT !.va = va, !.vb = vb, !.rel = rel]
         /\ pc' = IF Approaching(rel) THEN "impulse" ELSE "correct"
  /\ h' = Logged("response")
  /\ UNCHANGED <<a, b, dt, G, tick, march, frame, fold>>

\* va, vb, rel and the test rel < 0
Response ==
  /\ pc = "response"
  /\ \E va \in {PointVelocity(a, loc.ra)}, vb \in {PointVelocity(b, loc.rb)} :
       \E rel \in {Dot(VSub(vb, va), loc.n)} :
         /\ loc' = [loc EXCEPT !.va = va, !.vb = vb, !.rel = rel]
         /\ pc' = IF Approaching(rel) THEN "impulse" ELSE "done"
  /\ h' = Logged("response")
  /\ UNCHANGED <<a, b, dt, G, tick, march, frame, fold>>

NormalImpulse ==
  /\ pc = "impulse"
  /\ \E invMass \in {InvMass(a, b, loc.ra, loc.rb, loc.n)} :
       \E j \in {ImpulseJ(loc.rel, invMass)} :
         \E impulse \in {VScale(loc.n, j)} :
           /\ a' = ApplyImpulseA(a, loc.ra, impulse)
           /\ b' = ApplyImpulseB(b, loc.rb, impulse)
           /\ loc' = [loc EXCEPT !.invMass = invMass, !.j = j]
  /\ h' = [h EXCEPT !.impulse = TRUE]
  /\ pc' = "friction"
  /\ UNCHANGED <<dt, G, tick, march, frame, fold>>

Friction ==
  /\ pc = "friction"
  /\ \E rv \in {VSub(loc.vb, loc.va)} :
       \E tangent \in {Tangent(rv, loc.n)} :
         \E tlen \in {Length(tangent)} :
           IF Gt(tlen, GravEps)
           THEN \E f \in {FrictionImpulse(rv, tangent, tlen, loc.invMass, loc.j)} :
                  /\ a' = ApplyImpulseA(a, loc.ra, f)
                  /\ b' = ApplyImpulseB(b, loc.rb, f)
                  /\ h' = [h EXCEPT !.friction = TRUE]
                  /\ loc' = [loc EXCEPT !.jt =
                       FrictionJt(rv, VDivS(tangent, tlen), loc.invMass, loc.j)]
           ELSE UNCHANGED <<a, b, h, loc>>
  /\ pc' = "correct"
  /\ UNCHANGED <<dt, G, tick, march, frame, fold>>

\* Correct resolving the penetration by shrinking the spheres
CorrectByShrinking ==
  /\ pc = "correct"
  /\ \E pen \in {Sub(Add(a.radius, b.radius), loc.dist)} :
       /\ a' = [a EXCEPT !.radius = Sub(@, Mul(pen, FHalf))]
       /\ b' = [b EXCEPT !.radius = Sub(@, Mul(pen, FHalf))]
  /\ pc' = "done"
  /\ UNCHANGED <<dt, G, tick, loc, h, march, frame, fold>>

Correct ==
  /\ pc = "correct"
  /\ \E corr \in {Correction(a, b, loc.n, loc.dist)} :
       /\ a' = [a EXCEPT !.position = VSub(a.position, corr)]
       /\ b' = [b EXCEPT !.position = VAdd(b.position, corr)]
  /\ pc' = "done"
  /\ UNCHANGED <<dt, G, tick, loc, h, march, frame, fold>>

\* the caller's loop calls stepPhysics again on the same two bodies; what
\* the locals of the call before held is still there, and dead
NextTick ==
  /\ pc = "done"
  /\ tick < MaxTicks
  /\ tick' = tick + 1
  /\ pc' = "gravity"
  /\ h' = NewHistory(a, b)
  /\ UNCHANGED <<a, b, dt, G, loc, march, frame, fold>>

Next ==
  \/ Gravity
  \/ Integrate
  \/ Orient
  \/ BroadPhase
  \/ NarrowPhase
  \/ Response
  \/ NormalImpulse
  \/ Friction
  \/ Correct
  \/ NextTick

Spec == Init /\ [][Next]_vars

\* ------------------------------------------------------------------------
\* integrateOrientation called tick after tick on both bodies, as
\* stepPhysics calls it, the angular velocities staying as they are
\* ------------------------------------------------------------------------
MaxSpins == 6

SpinRates ==
  { VZero, Vec(0, 1, 0, 2), Vec(6, 0, 8, 1), Vec(10, 0, 0, 1),
    Vec(-3, 4, -5, 1), Vec(2, -9, 3, 1) }

InitSpin ==
  /\ \E wa \in SpinRates, wb \in SpinRates :
       /\ a = Body(Vec(-2, 0, 0, 1), VZero, wa, QIdentity, F1, F1, MainInertia, "sierpinski")
       /\ b = Body(Vec(2, 0, 0, 1), VZero, wb, QIdentity, F1, F1, MainInertia, "sierpinski")
  /\ dt \in Steps
  /\ G = F1
  /\ pc = "spin"
  /\ tick = 0
  /\ loc = NoLocals
  /\ h = NewHistory(a, b)
  /\ march = Idle
  /\ frame = NoFrame
  /\ fold = NoFold

Spin ==
  /\ pc = "spin"
  /\ tick < MaxSpins
  /\ a' = IntegrateOrientation(a, dt)
  /\ b' = IntegrateOrientation(b, dt)
  /\ tick' = tick + 1
  /\ UNCHANGED <<dt, G, pc, loc, h, march, frame, fold>>

SpecSpin == InitSpin /\ [][Spin]_vars

\* ------------------------------------------------------------------------
\* findContactPoint step by step: "call" -> "test" -> "body" -> "test" ...
\* -> "return" -> "done".  A body's de may also be "opaque": a function
\* about which nothing is known, returning any of OpaqueValues
\* ------------------------------------------------------------------------
OpaqueValues == { Lit(1, 1024), FHalf, Neg(F1), NaN }

MarchKinds == DEKinds \cup {"opaque"}

NearLayout == <<Vec(-125, 0, 0, 100), Vec(125, 0, 0, 100)>>

\* a float whose square is below the smallest positive float: 2^-80
TinyLength == <<Pow2(MBits - 1), -103>>

\* centres that coincide, and centres a tiny distance apart
DegenerateLayouts ==
  { <<Vec(1, 2, 3, 1), Vec(1, 2, 3, 1)>>,
    <<VZero, VZero>>,
    <<VZero, <<TinyLength, F0, F0>>>>,
    <<VZero, <<F0, Neg(TinyLength), TinyLength>>>> }

MarchLayouts ==
  { NearLayout,
    <<Vec(-4, 0, 0, 1), Vec(4, 0, 0, 1)>>,
    <<Vec(-1, 0, 0, 2), Vec(1, 0, 0, 2)>>,
    <<VZero, Vec(30, 30, 30, 1)>>,
    <<VZero, Vec(3, 4, 12, 4)>> } \cup DegenerateLayouts

MarchKindPairs(layout) ==
  IF layout = NearLayout THEN MarchKinds \X MarchKinds
  ELSE (DEKinds \X DEKinds) \cup ({"null", "opaque"} \X {"null", "opaque"})

\* the values a.de(l / a.radius) * a.radius can take
DEOutcomes(o, l) == IF o.de = "opaque" THEN OpaqueValues ELSE {DEValue(o, l)}

\* the iteration counts of the sierpinskiDE calls one evaluation makes
Folds(o, l) ==
  IF o.de = "sierpinski" THEN {SierpLoop(SierpStart(VDivS(l, o.radius))).i} ELSE {}

InitMarch ==
  /\ \E layout \in MarchLayouts :
       \E kinds \in MarchKindPairs(layout) :
         /\ a = Body(layout[1], VZero, VZero, QIdentity, F1, F1, MainInertia, kinds[1])
         /\ b = Body(layout[2], VZero, VZero, QIdentity, F1, F1, MainInertia, kinds[2])
  /\ dt = Lit(16, 1000)
  /\ G = F1
  /\ pc = "march"
  /\ tick = 1
  /\ loc = NoLocals
  /\ h = NewHistory(a, b)
  /\ march = [pc |-> "call", dir |-> VZero, tMax |-> F0, t |-> F0, i |-> 0,
              evals |-> 0, folds |-> {}, contact |-> VZero,
              p |-> VZero, tp |-> F0, d |-> F0, brk |-> FALSE]
  /\ frame = NoFrame
  /\ fold = NoFold

\* dir, dist, t = a.radius, tMax = dist - b.radius, i = 0
MarchBegin ==
  /\ march.pc = "call"
  /\ march' = [march EXCEPT !.pc = "test", !.dir = MarchDir(a, b),
                            !.tMax = MarchTMax(a, b), !.t = a.radius]
  /\ UNCHANGED <<a, b, dt, G, pc, tick, loc, h, frame, fold>>

\* i<16 && t < tMax
MarchTest ==
  /\ march.pc = "test"
  /\ march' = [march EXCEPT !.pc =
       IF MarchContinue(march.i, march.t, march.tMax) THEN "body" ELSE "return"]
  /\ UNCHANGED <<a, b, dt, G, pc, tick, loc, h, frame, fold>>

\* the loop body and, unless it breaks, ++i; p, tp, d and brk keep the
\* point, its parameter, the sum and the outcome of the latest evaluation
MarchStep ==
  /\ march.pc = "body"
  /\ \E p \in {MarchPoint(a, march.dir, march.t)} :
       \E la \in {RotateInv(a.orientation, VSub(p, a.position))},
          lb \in {RotateInv(b.orientation, VSub(p, b.position))} :
         \E da \in DEOutcomes(a, la), db \in DEOutcomes(b, lb) :
           \E r \in {MarchBody(march.t, da, db)} :
             march' = [march EXCEPT
                         !.evals = @ + 1,
                         !.p = p, !.tp = march.t, !.d = Add(da, db), !.brk = r.brk,
                         !.folds = @ \cup Folds(a, la) \cup Folds(b, lb),
                         !.t = r.t,
                         !.i = IF r.brk THEN @ ELSE @ + 1,
                         !.pc = IF r.brk THEN "return" ELSE "test"]
  /\ UNCHANGED <<a, b, dt, G, pc, tick, loc, h, frame, fold>>

\* return a.position + dir * t
MarchEnd ==
  /\ march.pc = "return"
  /\ march' = [march EXCEPT !.pc = "done", !.contact = MarchReturn(a, march.dir, march)]
  /\ UNCHANGED <<a, b, dt, G, pc, tick, loc, h, frame, fold>>

NextMarch ==
  \/ MarchBegin
  \/ MarchTest
  \/ MarchStep
  \/ MarchEnd

SpecMarch == InitMarch /\ [][NextMarch]_vars

\* ------------------------------------------------------------------------
\* the render loop of main: the host steps the physics, updates the camera,
\* copies camera and bodies into the two host-visible buffers, submits the
\* compute dispatch and waits for the queue; the GPU queue runs beside it.
\* frame.pc: "loop" -> "poll" -> "step" -> "camera" -> "copycam" ->
\* "copyobj" -> "submit" -> "wait" -> "loop" | "copycam" (screenshot) ...
\* -> "exit" -> "done"
\* ------------------------------------------------------------------------

\* iterations of the windowed loop in one behaviour
MaxFrames == 3

\* iterations of the headless loop: for(uint32_t i=0;i<60;i++)
HeadlessFrames == 60

\* float fracRad = estimateSierpinskiRadius() * 50.f
FracRad == Mul(F1, Lit(50, 1))

\* {a.position.x, a.position.y, a.position.z, a.radius}
PosRad(o) == <<o.position[1], o.position[2], o.position[3], o.radius>>

\* {a.orientation.x, a.orientation.y, a.orientation.z, a.orientation.w}
QuatGroup(o) ==
  <<o.orientation[2], o.orientation[3], o.orientation[4], o.orientation[1]>>

\* odata as drawFrame fills it: posRad[0], posRad[1], quat[0], quat[1]
PackDrawFrame(oa, ob) == PosRad(oa) \o PosRad(ob) \o QuatGroup(oa) \o QuatGroup(ob)

\* odata as drawFrameHeadless fills it
PackHeadless(oa, ob) == PosRad(oa) \o PosRad(ob) \o QuatGroup(oa) \o QuatGroup(ob)

\* odata as saveScreenshot fills it
PackScreenshot(oa, ob) == PosRad(oa) \o PosRad(ob) \o QuatGroup(oa) \o QuatGroup(ob)

\* the object record the function fn copies to objectMemory
Pack(fn, oa, ob) ==
  CASE fn = "drawFrame" -> PackDrawFrame(oa, ob)
    [] fn = "drawFrameHeadless" -> PackHeadless(oa, ob)
    [] fn = "saveScreenshot" -> PackScreenshot(oa, ob)

\* keys that glfwPollEvents may deliver in one frame: none, P (screenshot),
\* ESC (close), W (move the camera)
Keys == {"none", "P", "ESC", "W"}

InitFrame ==
  /\ a = Body(Vec(-2, 0, 0, 1), VZero, Vec(0, 1, 0, 2), QIdentity, FracRad, F1,
              MainInertia, "sierpinski")
  /\ b = Body(Vec(2, 0, 0, 1), VZero, Vec(0, -1, 0, 2), QIdentity, FracRad, F1,
              MainInertia, "sierpinski")
  /\ dt = Lit(16, 1000)
  /\ G = F1
  /\ pc = "frame"
  /\ tick = 0
  /\ loc = NoLocals
  /\ h = NewHistory(a, b)
  /\ march = Idle
  /\ fold = NoFold
  /\ \E headless \in BOOLEAN :
       frame = [pc |-> "loop", headless |-> headless, fn |-> "main", i |-> 0,
                close |-> FALSE, pending |-> FALSE, camera |-> 0,
                cam |-> <<>>, obj |-> <<>>, gpu |-> "idle", reads |-> <<>>,
                shots |-> 0, files |-> <<>>, presses |-> 0, asked |-> 0]

\* while (!headless && !glfwWindowShouldClose(window))
WindowTest ==
  /\ frame.pc = "loop" /\ ~frame.headless
  /\ frame' = [frame EXCEPT !.pc = IF frame.close \/ frame.i >= MaxFrames
                                   THEN "exit" ELSE "poll"]
  /\ UNCHANGED <<a, b, dt, G, pc, tick, loc, h, march, fold>>

\* keyCallback for a press of key: ESC closes the window, P asks for a
\* screenshot; presses counts the P presses of the poll in progress
KeyCallback(f, key) ==
  [f EXCEPT !.close = @ \/ key = "ESC",
            !.pending = @ \/ key = "P",
            !.presses = IF key = "P" THEN @ + 1 ELSE @]

\* glfwPollEvents runs keyCallback for each key event that has arrived, up
\* to two here; dt is the wall-clock time of the frame; asked counts the
\* polls that delivered a press of P
Poll ==
  /\ frame.pc = "poll"
  /\ \E k1 \in Keys, k2 \in Keys :
       \E f \in {KeyCallback(KeyCallback([frame EXCEPT !.presses = 0], k1), k2)} :
         frame' = [f EXCEPT !.pc = "step",
                            !.camera = IF "W" \in {k1, k2} THEN 1 - @ ELSE @,
                            !.asked = IF f.presses > 0 THEN @ + 1 ELSE @]
  /\ dt' \in Steps
  /\ UNCHANGED <<a, b, G, pc, tick, loc, h, march, fold>>

\* HeadlessTest with i <= 60 as the loop test
HeadlessTestInclusive ==
  /\ frame.pc = "loop" /\ frame.headless
  /\ frame' = [frame EXCEPT !.pc = IF frame.i <= HeadlessFrames THEN "step" ELSE "exit",
                            !.camera = frame.i]
  /\ dt' = Lit(16, 1000)
  /\ UNCHANGED <<a, b, G, pc, tick, loc, h, march, fold>>

\* if(headless) for(uint32_t i=0;i<60;i++): the step is 0.016f, the camera
\* pose follows from i
HeadlessTest ==
  /\ frame.pc = "loop" /\ frame.headless
  /\ frame' = [frame EXCEPT !.pc = IF frame.i < HeadlessFrames THEN "step" ELSE "exit",
                            !.camera = frame.i]
  /\ dt' = Lit(16, 1000)
  /\ UNCHANGED <<a, b, G, pc, tick, loc, h, march, fold>>

\* stepPhysics(objA, objB, dt)
StepCPU ==
  /\ frame.pc = "step"
  /\ \E r \in {StepPhysics(a, b, dt, G)} : a' = r[1] /\ b' = r[2]
  /\ tick' = tick + 1
  /\ frame' = [frame EXCEPT !.pc = "camera"]
  /\ UNCHANGED <<dt, G, pc, loc, h, march, fold>>

\* the camera is brought up to date and the draw function is entered
CameraUpdate ==
  /\ frame.pc = "camera"
  /\ frame' = [frame EXCEPT !.pc = "copycam",
                            !.fn = IF frame.headless THEN "drawFrameHeadless"
                                   ELSE "drawFrame"]
  /\ UNCHANGED <<a, b, dt, G, pc, tick, loc, h, march, fold>>

\* vkMapMemory(cameraMemory); memcpy(ptr, &cam, sizeof(cam)); vkUnmapMemory
CopyCamera ==
  /\ frame.pc = "copycam"
  /\ frame' = [frame EXCEPT !.pc = "copyobj", !.cam = <<frame.camera>>]
  /\ UNCHANGED <<a, b, dt, G, pc, tick, loc, h, march, fold>>

\* odata filled from a and b; vkMapMemory(objectMemory); memcpy; vkUnmapMemory
CopyObjects ==
  /\ frame.pc = "copyobj"
  /\ frame' = [frame EXCEPT !.pc = "submit", !.obj = Pack(frame.fn, a, b)]
  /\ UNCHANGED <<a, b, dt, G, pc, tick, loc, h, march, fold>>

\* vkQueueSubmit: the dispatch starts to execute and reads both buffers
Submit ==
  /\ frame.pc = "submit"
  /\ frame' = [frame EXCEPT !.pc = "wait", !.gpu = "busy",
                            !.reads = <<frame.cam, frame.obj>>]
  /\ UNCHANGED <<a, b, dt, G, pc, tick, loc, h, march, fold>>

\* the GPU finishes the submitted work
GpuFinish ==
  /\ frame.pc # "none" /\ frame.gpu = "busy"
  /\ frame' = [frame EXCEPT !.gpu = "idle"]
  /\ UNCHANGED <<a, b, dt, G, pc, tick, loc, h, march, fold>>

\* the file the draw function fn writes once the queue is idle:
\* frame_%04u.ppm with the frame index (drawFrameHeadless),
\* screenshot_%04u.ppm with screenshotIndex (saveScreenshot), none (drawFrame)
Written(f) ==
  CASE f.fn = "drawFrameHeadless" -> Append(f.files, <<"frame", f.i>>)
    [] f.fn = "saveScreenshot" -> Append(f.files, <<"screenshot", f.shots>>)
    [] OTHER -> f.files

\* AfterDraw leaving screenshotPending set after the screenshot
AfterDrawPendingKept(f) ==
  IF f.fn = "drawFrame" /\ f.pending
  THEN [f EXCEPT !.pc = "copycam", !.fn = "saveScreenshot"]
  ELSE [f EXCEPT !.pc = "loop", !.fn = "main", !.i = @ + 1,
                 !.shots = IF f.fn = "saveScreenshot" THEN @ + 1 ELSE @,
                 !.files = Written(f)]

\* the host position after the draw function fn returns
AfterDraw(f) ==
  IF f.fn = "drawFrame" /\ f.pending
  THEN [f EXCEPT !.pc = "copycam", !.fn = "saveScreenshot"]
  ELSE [f EXCEPT !.pc = "loop", !.fn = "main", !.i = @ + 1,
                 !.pending = IF f.fn = "saveScreenshot" THEN FALSE ELSE @,
                 !.shots = IF f.fn = "saveScreenshot" THEN @ + 1 ELSE @,
                 !.files = Written(f)]

\* the draw function returns without waiting for the queue
WaitIdleSkipped ==
  /\ frame.pc = "wait"
  /\ frame' = AfterDraw(frame)
  /\ UNCHANGED <<a, b, dt, G, pc, tick, loc, h, march, fold>>

\* vkQueueWaitIdle(queue) returns once the queue is idle; the draw function
\* returns to the loop, which takes the screenshot if one is pending
WaitIdle ==
  /\ frame.pc = "wait"
  /\ frame.gpu = "idle"
  /\ frame' = AfterDraw(frame)
  /\ UNCHANGED <<a, b, dt, G, pc, tick, loc, h, march, fold>>

\* vkDeviceWaitIdle(device) after the loop
Exit ==
  /\ frame.pc = "exit"
  /\ frame.gpu = "idle"
  /\ frame' = [frame EXCEPT !.pc = "done"]
  /\ UNCHANGED <<a, b, dt, G, pc, tick, loc, h, march, fold>>

NextFrame ==
  \/ WindowTest
  \/ Poll
  \/ HeadlessTest
  \/ StepCPU
  \/ CameraUpdate
  \/ CopyCamera
  \/ CopyObjects
  \/ Submit
  \/ GpuFinish
  \/ WaitIdle
  \/ Exit

SpecFrame == InitFrame /\ [][NextFrame]_vars

\* ------------------------------------------------------------------------
\* sierpinskiDE step by step on a point of FoldPoints: "sort" (the fabs
\* calls and the three compare-and-swap steps) -> "scale" (the affine map
\* and m *= SCALE) -> "sort" ... -> "return" -> "done"
\* ------------------------------------------------------------------------

\* coordinates of the points: both signs, zero, equal magnitudes, values
\* inside and outside the unit cube
FoldCoords ==
  { Lit(-3, 2), Lit(-1, 4), F0, Lit(1, 10), Lit(3, 10), Lit(3, 5), F1, Lit(7, 3) }

FoldPoints == FoldCoords \X FoldCoords \X FoldCoords

InitFold ==
  /\ a = Body(VZero, VZero, VZero, QIdentity, F1, F1, MainInertia, "sierpinski")
  /\ b = a
  /\ dt = Lit(16, 1000)
  /\ G = F1
  /\ pc = "fold"
  /\ tick = 0
  /\ loc = NoLocals
  /\ h = NewHistory(a, b)
  /\ march = Idle
  /\ frame = NoFrame
  /\ \E p \in FoldPoints :
       fold = [pc |-> "sort", arg |-> p, p |-> p, m |-> F1, i |-> 0, in |-> p,
               ret |-> F0]

\* lines 88-91 of one iteration; in keeps the point the iteration began with
FoldSort ==
  /\ fold.pc = "sort"
  /\ fold' = [fold EXCEPT !.in = fold.p, !.p = SierpSort(fold.p), !.pc = "scale"]
  /\ UNCHANGED <<a, b, dt, G, pc, tick, loc, h, march, frame>>

\* lines 92-95 of one iteration and the loop test i < 6
FoldScale ==
  /\ fold.pc = "scale"
  /\ fold' = [fold EXCEPT !.p = SierpScale(fold.p), !.m = Mul(fold.m, F2),
                          !.i = fold.i + 1,
                          !.pc = IF fold.i + 1 < SierpIters THEN "sort" ELSE "return"]
  /\ UNCHANGED <<a, b, dt, G, pc, tick, loc, h, march, frame>>

\* return length(p)/m
FoldReturn ==
  /\ fold.pc = "return"
  /\ fold' = [fold EXCEPT !.ret = SierpResult(fold), !.pc = "done"]
  /\ UNCHANGED <<a, b, dt, G, pc, tick, loc, h, march, frame>>

NextFold ==
  \/ FoldSort
  \/ FoldScale
  \/ FoldReturn

SpecFold == InitFold /\ [][NextFold]_vars

\* ------------------------------------------------------------------------
\* measures used by the properties
\* ------------------------------------------------------------------------

\* |x| + |y| + |z|
L1(v) == Add(Add(FAbs(v[1]), FAbs(v[2])), FAbs(v[3]))

\* mass * velocity
Momentum(o) == VScale(o.velocity, o.mass)

TotalMomentum(oa, ob) == VAdd(Momentum(oa), Momentum(ob))

\* the spec's tolerance on momentum, relative to the momenta involved
MomentumTol == Lit(1, 10000)

Dyn(o) == <<o.position, o.velocity, o.angularVelocity, o.orientation>>

\* ------------------------------------------------------------------------
\* C1: in every state of a stepPhysics call - after the gravity update,
\* after the normal impulse, after the friction impulse, at the end - the
\* total linear momentum mA*velA + mB*velB equals the total at the start of
\* the call, up to the rounding of float arithmetic (1e-4 of the momenta of
\* the two bodies before and after)
\* ------------------------------------------------------------------------
C1_MomentumConserved ==
  LET before == TotalMomentum(h.a0, h.b0)
      after  == TotalMomentum(a, b)
      scale  == Add(Add(L1(Momentum(h.a0)), L1(Momentum(h.b0))),
                    Add(L1(Momentum(a)), L1(Momentum(b))))
  IN Le(L1(VSub(after, before)), Mul(MomentumTol, scale))

\* a tick in which gravity, the normal impulse and the friction impulse all
\* acted on bodies of different masses
C1_Witness ==
  /\ pc = "done"
  /\ h.impulse /\ h.friction
  /\ a.mass # b.mass
  /\ a.velocity # h.a0.velocity /\ b.velocity # h.b0.velocity

\* ------------------------------------------------------------------------
\* C2: after the collision response of two bodies with mA = mB = 1 and no
\* angular velocity that approach head-on along the line of centres, the
\* relative normal velocity dot(velB - velA, n) is minus the one before the
\* response (within 1e-3 of its magnitude)
\* ------------------------------------------------------------------------
RestitutionTol == Lit(1, 1000)

RelAfter == Dot(VSub(b.velocity, a.velocity), loc.n)

HeadOn ==
  /\ a.mass = F1 /\ b.mass = F1
  /\ h.aI.angularVelocity = VZero /\ h.bI.angularVelocity = VZero
  /\ Tangent(VSub(h.bI.velocity, h.aI.velocity), loc.n) = VZero

C2_ElasticReversal ==
  (pc = "done" /\ h.impulse /\ HeadOn)
    => Le(FAbs(Add(RelAfter, loc.rel)), Mul(RestitutionTol, FAbs(loc.rel)))

\* ------------------------------------------------------------------------
\* C3: once the integration of a tick is over, the bodies differ from their
\* state after gravity and integration only if the bounding spheres overlap
\* and both DE values at the contact point are below 0.001
\* ------------------------------------------------------------------------
AfterIntegration ==
  pc \in {"broad", "narrow", "response", "impulse", "friction", "correct", "done"}

\* the bounding spheres overlap at the integrated positions
OverlapAfterIntegration ==
  Le(Length(VSub(h.bI.position, h.aI.position)), Add(h.aI.radius, h.bI.radius))

C3_ResponseOnlyWhenTouching ==
  (AfterIntegration /\ (Dyn(a) # Dyn(h.aI) \/ Dyn(b) # Dyn(h.bI)))
    => /\ OverlapAfterIntegration
       /\ Lt(loc.da, DeEps)
       /\ Lt(loc.db, DeEps)

\* a tick of overlapping bodies that ends with the gravity-and-integration
\* state because one DE value is below the threshold and the other is not
C3_Witness ==
  /\ pc = "done"
  /\ OverlapAfterIntegration
  /\ Lt(loc.da, DeEps) /\ ~Lt(loc.db, DeEps)
  /\ Dyn(a) = Dyn(h.aI) /\ Dyn(b) = Dyn(h.bI)
  /\ Lt(Dot(VSub(h.bI.velocity, h.aI.velocity), loc.n), F0)

\* ------------------------------------------------------------------------
\* C4: overlapping bodies whose contact points move apart (rel >= 0) end
\* the tick with the linear and angular velocities they had right after the
\* gravity update
\* ------------------------------------------------------------------------

\* rel = dot(vB - vA, n) at the contact point of the integrated bodies
RelAtContact ==
  LET contact == FindContactPoint(h.aI, h.bI)
      va == PointVelocity(h.aI, VSub(contact, h.aI.position))
      vb == PointVelocity(h.bI, VSub(contact, h.bI.position))
  IN Dot(VSub(vb, va), loc.n)

C4_SeparatingNoImpulse ==
  (pc = "done" /\ OverlapAfterIntegration /\ Le(F0, RelAtContact))
    => /\ a.velocity = h.aG.velocity
       /\ b.velocity = h.bG.velocity
       /\ a.angularVelocity = h.aG.angularVelocity
       /\ b.angularVelocity = h.bG.angularVelocity

\* touching bodies that separate: the response ran and left at rel >= 0
C4_Witness ==
  /\ pc = "done"
  /\ h.touching /\ ~h.impulse
  /\ Lt(F0, RelAtContact)
  /\ a.velocity = h.aG.velocity /\ a.velocity # h.a0.velocity

\* ------------------------------------------------------------------------
\* C5 as stated: bodies whose centres are farther apart than
\* radiusA + radiusB when stepPhysics is called end the tick with the
\* velocities of the gravity update and their angular velocities unchanged
\* ------------------------------------------------------------------------
GravityOnly ==
  /\ a.velocity = h.aG.velocity
  /\ b.velocity = h.bG.velocity
  /\ a.angularVelocity = h.a0.angularVelocity
  /\ b.angularVelocity = h.b0.angularVelocity
  /\ ~h.impulse

\* the velocities the gravity update gives, from the bodies at the call
GravityContribution ==
  LET diff   == VSub(h.b0.position, h.a0.position)
      distSq == Add(Dot(diff, diff), GravEps)
      force  == VScale(VDivS(diff, Sqrt(distSq)),
                       Div(Mul(Mul(G, h.a0.mass), h.b0.mass), distSq))
  IN /\ h.aG.velocity = VAdd(h.a0.velocity, VScale(VDivS(force, h.a0.mass), dt))
     /\ h.bG.velocity = VSub(h.b0.velocity, VScale(VDivS(force, h.b0.mass), dt))

ApartAtCall ==
  Lt(Add(h.a0.radius, h.b0.radius), Length(VSub(h.b0.position, h.a0.position)))

C5_ApartAtCall == (pc = "done" /\ ApartAtCall) => (GravityOnly /\ GravityContribution)

\* ------------------------------------------------------------------------
\* C5, amended: bodies whose centres are farther apart than
\* radiusA + radiusB at the positions the tick integrates them to (the ones
\* the broad-phase tests) end the tick with the velocities of the gravity
\* update, their angular velocities unchanged and no contact impulse
\* ------------------------------------------------------------------------
C5_ApartAfterIntegration ==
  (pc = "done" /\ ~OverlapAfterIntegration) => (GravityOnly /\ GravityContribution)

\* a tick of bodies that stay apart, in which gravity changed both velocities
C5_Witness ==
  /\ pc = "done"
  /\ ~OverlapAfterIntegration
  /\ a.velocity # h.a0.velocity /\ b.velocity # h.b0.velocity
  /\ a.angularVelocity # VZero

\* ------------------------------------------------------------------------
\* C6: within a stepPhysics call the phases run in the order gravity,
\* position integration, orientation integration, broad-phase, then
\* possibly narrow-phase and response: the phases run so far are always a
\* prefix of that list (none twice, so at most one contact per tick), the
\* position integration moves the bodies with the velocities after gravity,
\* the broad-phase tests the integrated positions, and every step leads to
\* a later phase of the same call or from the end to the next call
\* ------------------------------------------------------------------------
PhaseOrder == <<"gravity", "position", "orientation", "broad", "narrow", "response">>

Rank(p) ==
  CASE p = "gravity"   -> 0
    [] p = "integrate" -> 1
    [] p = "orient"    -> 2
    [] p = "broad"     -> 3
    [] p = "narrow"    -> 4
    [] p = "response"  -> 5
    [] p = "impulse"   -> 6
    [] p = "friction"  -> 7
    [] p = "correct"   -> 8
    [] p = "done"      -> 9

PhasesInOrder ==
  /\ Len(h.log) <= Len(PhaseOrder)
  /\ h.log = SubSeq(PhaseOrder, 1, Len(h.log))
  /\ Len(h.log) = (IF Rank(pc) <= 5 THEN Rank(pc)
                   ELSE IF pc = "done" THEN Len(h.log) ELSE 6)
  /\ pc = "done" => Len(h.log) >= 4
  /\ pc = "orient" =>
       /\ a.position = VAdd(h.a0.position, VScale(h.aG.velocity, dt))
       /\ b.position = VAdd(h.b0.position, VScale(h.bG.velocity, dt))
       /\ a.velocity = h.aG.velocity /\ b.velocity = h.bG.velocity
  /\ Rank(pc) >= 4 => (h.overlap <=> OverlapAfterIntegration)
  /\ (Rank(pc) >= 4 /\ pc # "done") => h.overlap

PhaseForward ==
  \/ Rank(pc') > Rank(pc) /\ tick' = tick
  \/ pc = "done" /\ pc' = "gravity" /\ tick' = tick + 1

C6_PhaseOrder == [](PhasesInOrder) /\ [][PhaseForward]_vars

\* a tick that went through every phase, the response included
C6_Witness ==
  /\ pc = "done"
  /\ h.log = PhaseOrder
  /\ h.impulse
  /\ h.aG.velocity # h.a0.velocity

\* ------------------------------------------------------------------------
\* C7: once the integration of a tick is over, and up to its end, the
\* position and the orientation of each body have been integrated exactly
\* once - by velocity*dt and by the angular velocity - whether the
\* broad-phase found an overlap or not and whether a response ran or not
\* ------------------------------------------------------------------------
C7_IntegratedOnce ==
  AfterIntegration =>
    /\ h.posA = 1 /\ h.posB = 1
    /\ h.rotA = 1 /\ h.rotB = 1
    /\ h.aI.position = VAdd(h.a0.position, VScale(h.aG.velocity, dt))
    /\ h.bI.position = VAdd(h.b0.position, VScale(h.bG.velocity, dt))
    /\ h.aI.orientation = IntegrateOrientation(h.a0, dt).orientation
    /\ h.bI.orientation = IntegrateOrientation(h.b0, dt).orientation
    /\ a.orientation = h.aI.orientation
    /\ b.orientation = h.bI.orientation
    /\ ~h.impulse => (a.position = h.aI.position /\ b.position = h.bI.position)

\* a tick with a collision response in which both bodies moved and turned
C7_Witness ==
  /\ pc = "done"
  /\ h.impulse
  /\ h.posA = 1 /\ h.rotB = 1
  /\ h.aI.position # h.a0.position
  /\ a.orientation # h.a0.orientation /\ b.orientation # h.b0.orientation

\* ------------------------------------------------------------------------
\* C8: after every integrateOrientation call with |angularVelocity| <= 10
\* and dt <= 0.05 the orientation of the body has norm 1 within 1e-5
\* ------------------------------------------------------------------------
NormTol == Lit(1, 100000)

UnitNorm(q) == Le(FAbs(Sub(Sqrt(QuatNormSq(q)), F1)), NormTol)

SlowSpin(o) == Le(Length(o.angularVelocity), FromInt(10)) /\ Le(dt, Lit(5, 100))

OrientationIntegrated == (pc = "spin" /\ tick >= 1) \/ AfterIntegration

C8_UnitQuaternion ==
  OrientationIntegrated =>
    /\ SlowSpin(a) => UnitNorm(a.orientation)
    /\ SlowSpin(b) => UnitNorm(b.orientation)

\* several calls at the largest rate and step, the body well turned
C8_Witness ==
  /\ pc = "spin" /\ tick >= 3
  /\ dt = Lit(5, 100)
  /\ a.angularVelocity = Vec(6, 0, 8, 1)
  /\ Length(a.angularVelocity) = FromInt(10)
  /\ Lt(a.orientation[1], FHalf)
  /\ UnitNorm(a.orientation)

\* ------------------------------------------------------------------------
\* C9: findContactPoint terminates, whatever the distance estimators
\* return: every position short of the end has a next step, every step
\* lowers a bound on the steps left that never goes below 0, the pair of
\* distance estimators is evaluated at most 16 times, and every
\* sierpinskiDE call made runs 6 iterations
\* ------------------------------------------------------------------------

\* an upper bound on the steps findContactPoint has left
StepsLeft ==
  CASE march.pc = "call"   -> 2 * 16 + 3
    [] march.pc = "test"   -> 2 * (16 - march.i) + 2
    [] march.pc = "body"   -> 2 * (16 - march.i) + 1
    [] march.pc = "return" -> 1
    [] march.pc = "done"   -> 0

MarchBounded ==
  /\ march.pc \in {"call", "test", "body", "return", "done"}
  /\ march.evals <= 16
  /\ march.i <= march.evals
  /\ StepsLeft >= 0
  /\ \A f \in march.folds : f = 6

C9_MarchTerminates == [](pc = "march" => MarchBounded) /\ [][StepsLeft' < StepsLeft]_vars

\* a march that used its whole budget on a sierpinski body
C9_Witness ==
  /\ pc = "march" /\ march.pc = "done"
  /\ march.evals = 16
  /\ b.de = "sierpinski"
  /\ march.folds = {6}

\* ------------------------------------------------------------------------
\* C10: the first tick at dt = 0.016, G = 1 of bodies at (-2,0,0) and
\* (2,0,0) with radius 1, mass 1, at rest and not spinning ends with
\* velA.x > 0, velB.x < 0 and both orientations as they were; the bodies
\* end in the state gravity and integration alone give, whichever distance
\* estimators they carry
\* ------------------------------------------------------------------------
Scenario ==
  /\ tick = 1
  /\ dt = Lit(16, 1000) /\ G = F1
  /\ h.a0.position = Vec(-2, 0, 0, 1) /\ h.b0.position = Vec(2, 0, 0, 1)
  /\ h.a0.velocity = VZero /\ h.b0.velocity = VZero
  /\ h.a0.angularVelocity = VZero /\ h.b0.angularVelocity = VZero
  /\ h.a0.radius = F1 /\ h.b0.radius = F1
  /\ h.a0.mass = F1 /\ h.b0.mass = F1

C10_AttractOnly ==
  (pc = "done" /\ Scenario) =>
    /\ Gt(a.velocity[1], F0)
    /\ Lt(b.velocity[1], F0)
    /\ a.orientation = h.a0.orientation /\ b.orientation = h.b0.orientation
    /\ a.velocity = h.aG.velocity /\ b.velocity = h.bG.velocity
    /\ a.position = VAdd(h.a0.position, VScale(a.velocity, dt))
    /\ b.position = VAdd(h.b0.position, VScale(b.velocity, dt))
    /\ a.angularVelocity = VZero /\ b.angularVelocity = VZero
    /\ ~h.overlap

\* the scenario at the end of its tick, the bodies carrying different
\* distance estimators
C10_Witness ==
  /\ pc = "done" /\ Scenario
  /\ a.de = "sierpinski" /\ b.de = "null"
  /\ Gt(a.velocity[1], F0) /\ Lt(b.velocity[1], F0)

\* ------------------------------------------------------------------------
\* C11: stepPhysics is a function of its arguments: at the end of every
\* tick, the first and the later ones, the two bodies are what the body
\* states at the call, dt and G determine, whatever earlier ticks left
\* behind; the tick writes neither dt nor G, and the next call starts from
\* the bodies as the tick left them
\* ------------------------------------------------------------------------
FunctionOfArguments == pc = "done" => <<a, b>> = StepPhysics(h.a0, h.b0, dt, G)

OnlyBodiesWritten ==
  /\ dt' = dt /\ G' = G
  /\ pc = "done" => (a' = a /\ b' = b /\ h'.a0 = a /\ h'.b0 = b)

C11_Deterministic == [](FunctionOfArguments) /\ [][OnlyBodiesWritten]_vars

\* the end of a second tick in which the collision response ran, the locals
\* of the first tick still in place when it started
C11_Witness ==
  /\ pc = "done" /\ tick = 2
  /\ h.impulse
  /\ loc.invMass # F0
  /\ <<a, b>> = StepPhysics(h.a0, h.b0, dt, G)
  /\ <<a, b>> # <<h.aI, h.bI>>

\* ------------------------------------------------------------------------
\* C12: no step of stepPhysics - integrateOrientation and findContactPoint
\* included - changes the radius, the mass, the inertia or the de of a
\* body
\* ------------------------------------------------------------------------
Shape(o) == <<o.radius, o.mass, o.inertia, o.de>>

C12_ShapeFixed ==
  [][/\ <<a'.radius, a'.mass, a'.inertia, a'.de>> = Shape(a)
     /\ <<b'.radius, b'.mass, b'.inertia, b'.de>> = Shape(b)]_vars

\* the end of a second tick that went through every phase and changed all
\* four mutable fields of A
C12_Witness ==
  /\ pc = "done" /\ tick = 2
  /\ h.impulse /\ h.friction
  /\ Shape(a) = Shape(h.a0) /\ Shape(b) = Shape(h.b0)
  /\ a.position # h.a0.position /\ a.velocity # h.a0.velocity
  /\ a.angularVelocity # h.a0.angularVelocity /\ a.orientation # h.a0.orientation

\* ------------------------------------------------------------------------
\* C13: whatever the positions at the call, coincident centres included,
\* the squared distance the gravity phase divides by is at least 1e-6, the
\* velocities after the gravity update are finite, and the velocity of A
\* has not changed against +n nor that of B against -n (n = diff / dist);
\* under G > 0 a body at rest at the call moves toward the other one unless
\* the centres coincide (the change of a fast body can be lost in the
\* rounding)
\* ------------------------------------------------------------------------
Finite(v) == ~IsNaN(v[1]) /\ ~IsNaN(v[2]) /\ ~IsNaN(v[3])

CallDiff == VSub(h.b0.position, h.a0.position)

CallDistSq == Add(Dot(CallDiff, CallDiff), GravEps)

C13_GravityFinite ==
  pc # "gravity" =>
    LET n   == VDivS(CallDiff, Sqrt(CallDistSq))
        dvA == Dot(VSub(h.aG.velocity, h.a0.velocity), n)
        dvB == Dot(VSub(h.bG.velocity, h.b0.velocity), n)
    IN /\ Le(GravEps, CallDistSq)
       /\ Finite(h.aG.velocity) /\ Finite(h.bG.velocity)
       /\ Finite(n)
       /\ Le(F0, dvA) /\ Le(dvB, F0)
       /\ (Gt(G, F0) /\ CallDiff # VZero /\ h.a0.velocity = VZero) => Lt(F0, dvA)
       /\ (Gt(G, F0) /\ CallDiff # VZero /\ h.b0.velocity = VZero) => Lt(dvB, F0)
       /\ CallDiff = VZero => (h.aG.velocity = h.a0.velocity /\ h.bG.velocity = h.b0.velocity)

\* the gravity update done for two moving bodies with the same centre
C13_Witness ==
  /\ pc = "integrate"
  /\ h.a0.position = h.b0.position
  /\ h.a0.velocity # VZero
  /\ Finite(a.velocity) /\ Finite(b.velocity)

\* ------------------------------------------------------------------------
\* C14: normalize applied to the zero vector returns the zero vector and
\* divides nothing (no component is NaN); for every vector whose computed
\* length is greater than zero it returns the vector divided by that
\* length, and for every other vector (the zero vector, and a vector so
\* short that its squared length rounds to zero) it returns the zero vector.
\* Checked on the direction findContactPoint computes from the centres.
\* ------------------------------------------------------------------------

\* b.position - a.position, the argument of normalize in findContactPoint
MarchDiff == VSub(b.position, a.position)

C14_NormalizeGuarded ==
  march.pc # "call" =>
    /\ Finite(march.dir)
    /\ MarchDiff = VZero => march.dir = VZero
    /\ IF Gt(Length(MarchDiff), F0)
       THEN march.dir = VDivS(MarchDiff, Length(MarchDiff))
       ELSE march.dir = VZero

\* the centres coincide away from the origin and the direction is zero
C14_Witness ==
  /\ march.pc = "done"
  /\ a.position # VZero
  /\ MarchDiff = VZero
  /\ march.dir = VZero

\* C14 as stated: the zero vector gives the zero vector and every non-zero
\* vector gives the vector divided by its length
C14_NormalizeNonZero ==
  march.pc # "call" =>
    IF MarchDiff = VZero
    THEN march.dir = VZero
    ELSE march.dir = VDivS(MarchDiff, Length(MarchDiff))

\* ------------------------------------------------------------------------
\* C15: the 16-float record copied to the object buffer holds, for each of
\* the two bodies, position x,y,z followed by the radius, and an
\* orientation group in the order (w,x,y,z); drawFrame, drawFrameHeadless
\* and saveScreenshot all write this layout.
\* ------------------------------------------------------------------------

\* the orientation group in the order (w,x,y,z)
QuatWXYZ(o) ==
  <<o.orientation[1], o.orientation[2], o.orientation[3], o.orientation[4]>>

C15_RecordLayout ==
  frame.pc \in {"submit", "wait"} =>
    /\ Len(frame.obj) = 16
    /\ frame.obj = PosRad(a) \o PosRad(b) \o QuatWXYZ(a) \o QuatWXYZ(b)

\* ------------------------------------------------------------------------
\* C16: in every frame the physics step is complete before the bodies are
\* copied to the object buffer, the copies are complete before the dispatch
\* is submitted, and the queue is idle before the host goes on: while a
\* submitted dispatch executes, the host is inside vkQueueWaitIdle and
\* neither the bodies nor the camera and object buffers change.
\* ------------------------------------------------------------------------

\* step, copy and submit are in this order inside a frame, and the host
\* waits while the GPU is busy
FrameSerialised ==
  /\ frame.pc \in {"camera", "copycam", "copyobj", "submit", "wait"} =>
       tick = frame.i + 1
  /\ frame.pc \in {"loop", "poll", "step"} => tick = frame.i
  /\ frame.pc \in {"submit", "wait"} =>
       /\ frame.obj = Pack(frame.fn, a, b)
       /\ frame.cam = <<frame.camera>>
  /\ frame.gpu = "busy" =>
       /\ frame.pc = "wait"
       /\ frame.reads = <<frame.cam, frame.obj>>

\* nothing the dispatch reads is written while it executes
QuietWhileBusy ==
  frame.gpu = "busy" =>
    /\ a' = a /\ b' = b
    /\ frame'.cam = frame.cam /\ frame'.obj = frame.obj

C16_Serialised == [](FrameSerialised) /\ [][QuietWhileBusy]_vars

\* the dispatch of a screenshot executes in the second frame of the window
\* loop, after that frame's own dispatch
C16_Witness ==
  /\ frame.gpu = "busy"
  /\ frame.fn = "saveScreenshot"
  /\ frame.i = 1 /\ tick = 2
  /\ frame.reads = <<<<frame.camera>>, PackScreenshot(a, b)>>

\* ------------------------------------------------------------------------
\* C17: the broad-phase test uses the centre distance after the Euler
\* integration and is inclusive: the narrow-phase runs if and only if that
\* distance is <= radiusA + radiusB; when it is greater the tick ends with
\* the bodies as the integration left them and without a narrow-phase (the
\* only phase that evaluates a distance estimator).
\* ------------------------------------------------------------------------

\* the phase was run in this tick
InLog(phase) == \E k \in 1..Len(h.log) : h.log[k] = phase

\* the centre distance at the integrated positions
IntegratedDist == Length(VSub(h.bI.position, h.aI.position))

\* the broad-phase of this tick has been decided
BroadDecided ==
  pc \in {"narrow", "response", "impulse", "friction", "correct", "done"}

C17_BroadPhaseInclusive ==
  BroadDecided =>
    /\ loc.dist = IntegratedDist
    /\ (pc = "narrow" \/ InLog("narrow")) <=>
         Le(IntegratedDist, Add(h.aI.radius, h.bI.radius))
    /\ Gt(IntegratedDist, Add(h.aI.radius, h.bI.radius)) =>
         /\ pc = "done"
         /\ h.log = <<"gravity", "position", "orientation", "broad">>
         /\ a = h.aI /\ b = h.bI
         /\ ~h.touching /\ ~h.impulse /\ ~h.friction

\* the integration has moved the bodies to exactly radiusA + radiusB apart
\* and the narrow-phase has run
C17_Witness ==
  /\ pc = "done"
  /\ h.a0.position # h.aI.position
  /\ IntegratedDist = Add(a.radius, b.radius)
  /\ InLog("narrow")

\* ------------------------------------------------------------------------
\* C18: each march iteration computes d = da + db at the current point
\* a.position + dir * t; if d < 0.0005 the march stops and the point just
\* evaluated is the contact point returned, otherwise t becomes the float
\* t + d * 0.5 before the next iteration.
\* ------------------------------------------------------------------------

\* one pass through the loop body
MarchIteration ==
  march.pc = "body" =>
    /\ march'.p = MarchPoint(a, march.dir, march.t)
    /\ march'.evals = march.evals + 1
    /\ IF Lt(march'.d, MarchEps)
       THEN /\ march'.brk /\ march'.pc = "return"
            /\ march'.t = march.t /\ march'.i = march.i
       ELSE /\ ~march'.brk /\ march'.pc = "test"
            /\ march'.t = Add(march.t, Mul(march'.d, FHalf))
            /\ march'.i = march.i + 1

\* a march that stopped on d < eps returns the evaluated point
ReturnsEvaluated ==
  (march.pc = "done" /\ march.brk) =>
    /\ Lt(march.d, MarchEps)
    /\ march.contact = march.p

C18_MarchStep == [](ReturnsEvaluated) /\ [][MarchIteration]_vars

\* a march that advanced at least once and then stopped on d < eps
C18_Witness ==
  /\ march.pc = "done" /\ march.brk
  /\ march.evals >= 2
  /\ Gt(march.t, a.radius)
  /\ march.contact = march.p

\* ------------------------------------------------------------------------
\* C19: a march that uses all 16 iterations without d dropping below eps
\* still returns a point: a.position + dir * t for the t reached by the
\* sixteenth advance, which lies half the last sum beyond the last point
\* evaluated.
\* ------------------------------------------------------------------------

\* the loop ran out of iterations
BudgetExhausted ==
  march.pc = "done" /\ march.evals = MarchIters /\ ~march.brk

C19_BudgetExhausted ==
  BudgetExhausted =>
    /\ march.i = MarchIters
    /\ march.contact = MarchPoint(a, march.dir, march.t)
    /\ march.t = Add(march.tp, Mul(march.d, FHalf))
    /\ march.p = MarchPoint(a, march.dir, march.tp)
    /\ ~Lt(march.d, MarchEps)
    /\ Finite(march.dir)

C19_Witness ==
  /\ BudgetExhausted
  /\ march.contact # march.p
  /\ Finite(march.contact)

\* C19 as stated, for the bodies main can build (de is sierpinskiDE or
\* null): the point returned is the last point computed and evaluated
\* during the march
C19_LastEvaluated ==
  (BudgetExhausted /\ a.de \in DEKinds /\ b.de \in DEKinds) =>
    march.contact = march.p

\* ------------------------------------------------------------------------
\* C20: whenever the impulse branch of stepPhysics runs (rel < 0), the
\* effective inverse mass is strictly positive and the normal impulse
\* magnitude j is not negative (strictly positive unless -2*rel/invMass is
\* too small for a float and rounds to zero), so the clamp interval
\* [-0.5*j, 0.5*j] is well-formed and the tangential impulse applied
\* satisfies |jt| <= 0.5*j.
\* ------------------------------------------------------------------------

\* the impulse branch of this tick has computed invMass and j
ImpulseRun == h.impulse /\ pc \in {"friction", "correct", "done"}

\* the friction block of this tick has computed jt
FrictionRun == h.friction /\ pc \in {"correct", "done"}

\* a float below 2^-126, which has lost significand bits
Subnormal(x) == x[1] # 0 /\ x[2] < -TinyExp

\* the clamp interval is well-formed and holds jt
ClampHolds ==
  /\ Le(Mul(Neg(loc.j), Mu), Mul(loc.j, Mu))
  /\ FrictionRun => Le(FAbs(loc.jt), Mul(loc.j, Mu))

C20_FrictionClamped ==
  ImpulseRun =>
    /\ Lt(loc.rel, F0)
    /\ Gt(loc.invMass, F0)
    /\ Le(F0, loc.j)
    /\ ~Subnormal(loc.rel) => Gt(loc.j, F0)
    /\ ClampHolds

\* the clamp has cut jt down to the bound 0.5*j
C20_Witness ==
  /\ FrictionRun /\ pc = "done"
  /\ Gt(loc.j, F0)
  /\ FAbs(loc.jt) = Mul(loc.j, Mu)
  /\ Gt(FAbs(Div(Neg(Dot(VSub(loc.vb, loc.va),
                         Normalize(Tangent(VSub(loc.vb, loc.va), loc.n)))),
                 loc.invMass)),
        Mul(loc.j, Mu))

\* C20 as stated: j is strictly positive whenever the impulse branch runs
C20_ImpulsePositive ==
  ImpulseRun =>
    /\ Gt(loc.invMass, F0)
    /\ Gt(loc.j, F0)
    /\ ClampHolds

\* ------------------------------------------------------------------------
\* C21: when the positional correction of stepPhysics has been applied, A
\* stands at its integrated position minus n*pen/2 and B at its integrated
\* position plus n*pen/2, pen being radiusA + radiusB - dist; when the
\* centres coincided (dist = 0) n is the fallback direction (1,0,0); and
\* whenever n has unit length (it has, unless dist is positive and so
\* small that its square was rounded in the subnormal range) the distance
\* between the centres is then radiusA + radiusB, within SepTol, the
\* rounding of the float operations.
\* ------------------------------------------------------------------------
SepTol == Lit(1, 100000)

\* the correction has been applied in this tick
Corrected == pc = "done" /\ h.impulse

\* n * (pen / 2), written out
HalfPen == VScale(loc.n, Mul(Sub(Add(a.radius, b.radius), loc.dist), FHalf))

UnitNormal == Le(FAbs(Sub(Length(loc.n), F1)), SepTol)

\* the centres are radiusA + radiusB apart
Separated ==
  Le(FAbs(Sub(Length(VSub(b.position, a.position)), Add(a.radius, b.radius))),
     SepTol)

C21_CorrectionSeparates ==
  Corrected =>
    /\ a.position = VSub(h.aI.position, HalfPen)
    /\ b.position = VAdd(h.bI.position, HalfPen)
    /\ (loc.dist = F0 => loc.n = <<F1, F0, F0>>)
    /\ (UnitNormal => Separated)

\* the correction has pushed apart bodies whose centres coincided
C21_Witness ==
  /\ Corrected
  /\ loc.dist = F0
  /\ h.aI.position = h.bI.position
  /\ Separated

\* C21 as stated: after every positional correction the distance between
\* the centres is radiusA + radiusB
C21_AlwaysSeparated == Corrected => Separated

\* ------------------------------------------------------------------------
\* C22: in each of the 6 iterations of sierpinskiDE, once the absolute
\* values are taken and the three compare-and-swap steps (x,y), (x,z),
\* (y,z) are done, the coordinates are in descending order
\* (x >= y >= z >= 0) and are a permutation of the absolute values of the
\* coordinates the iteration began with, whatever the input point; the
\* loop runs 6 times and the scale m is 2^6 = 64 at the return.
\* ------------------------------------------------------------------------
Perms3 == { <<1, 2, 3>>, <<1, 3, 2>>, <<2, 1, 3>>, <<2, 3, 1>>, <<3, 1, 2>>, <<3, 2, 1>> }

Descending(p) == Le(p[3], p[2]) /\ Le(p[2], p[1]) /\ Le(F0, p[3])

PermutationOfAbs(p, q) ==
  \E s \in Perms3 : p = <<FAbs(q[s[1]]), FAbs(q[s[2]]), FAbs(q[s[3]])>>

C22_FoldSorts ==
  /\ fold.pc = "scale" =>
       /\ fold.i < SierpIters
       /\ Descending(fold.p)
       /\ PermutationOfAbs(fold.p, fold.in)
  /\ fold.pc \in {"return", "done"} =>
       /\ fold.i = 6
       /\ fold.m = Lit(64, 1)
  /\ fold.pc = "done" => fold.ret = SierpinskiDE(fold.arg)

\* an iteration after the first has sorted a point whose magnitudes were in
\* ascending order and that had a negative coordinate
C22_Witness ==
  /\ fold.pc = "scale"
  /\ fold.i >= 1
  /\ Lt(FAbs(fold.in[1]), FAbs(fold.in[2]))
  /\ Lt(FAbs(fold.in[2]), FAbs(fold.in[3]))
  /\ \E k \in 1..3 : Lt(fold.in[k], F0)

\* ------------------------------------------------------------------------
\* C23: in headless mode the body of the windowed loop never runs
\* (no poll, no drawFrame, no screenshot) and the program makes exactly 60
\* iterations, each one stepPhysics call with dt = 0.016 followed by one
\* drawFrameHeadless call that writes the frame with the index i of the
\* iteration, i = 0..59 in increasing order; in windowed mode the headless
\* loop never runs (no drawFrameHeadless call, no frame file).
\* ------------------------------------------------------------------------

\* the host is between the stepPhysics call of an iteration and the return
\* of its draw function
Drawing == frame.pc \in {"camera", "copycam", "copyobj", "submit", "wait"}

HeadlessRun ==
  /\ frame.pc # "poll"
  /\ frame.fn \in {"main", "drawFrameHeadless"}
  /\ frame.shots = 0 /\ ~frame.pending
  /\ frame.i <= HeadlessFrames
  /\ Len(frame.files) = frame.i
  /\ \A k \in 1..Len(frame.files) : frame.files[k] = <<"frame", k - 1>>
  /\ tick = frame.i + (IF Drawing THEN 1 ELSE 0)
  /\ frame.pc \in {"step", "camera"} => dt = Lit(16, 1000)
  /\ frame.pc \in {"exit", "done"} => frame.i = 60 /\ tick = 60

WindowedRun ==
  /\ frame.fn # "drawFrameHeadless"
  /\ \A k \in 1..Len(frame.files) : frame.files[k][1] # "frame"

\* a stepPhysics call of the headless loop: dt is 0.016 and the draw
\* function comes next, with the index of the iteration
HeadlessStep ==
  (frame.headless /\ tick' # tick) =>
    /\ tick' = tick + 1
    /\ dt = Lit(16, 1000)
    /\ frame.pc = "step" /\ frame'.pc = "camera"
    /\ frame'.i = frame.i /\ frame.i < 60

C23_HeadlessLoop ==
  /\ [](frame.pc # "none" =>
          IF frame.headless THEN HeadlessRun ELSE WindowedRun)
  /\ [][HeadlessStep]_vars

\* the headless program is over: 60 steps, 60 frames written
C23_Witness ==
  /\ frame.headless
  /\ frame.pc = "done"
  /\ tick = 60
  /\ Len(frame.files) = 60
  /\ frame.files[60] = <<"frame", 59>>

\* ------------------------------------------------------------------------
\* C24: a press of P sets screenshotPending and the request is served in
\* the loop iteration that polled it: after drawFrame exactly one
\* screenshot is saved, screenshotIndex goes up by exactly 1 and
\* screenshotPending is cleared; several presses of P in one poll give a
\* single screenshot; screenshotPending is false at the end of every
\* iteration.
\* ------------------------------------------------------------------------

\* every poll that delivered a press has been served, but for the one of
\* the iteration in progress while its request is pending
ServedInIteration ==
  /\ frame.asked = frame.shots + (IF frame.pending THEN 1 ELSE 0)
  /\ frame.pending => frame.pc \notin {"loop", "poll", "exit", "done"}
  /\ frame.pc = "step" => (frame.pending <=> frame.presses > 0)
  /\ frame.fn = "saveScreenshot" => frame.pending
  /\ Len(frame.files) = frame.shots
  /\ \A k \in 1..Len(frame.files) : frame.files[k] = <<"screenshot", k - 1>>

\* a step that saves a screenshot: the request was pending, saveScreenshot
\* is returning to the loop, one file, index + 1, request cleared
SavesOne ==
  frame'.shots # frame.shots =>
    /\ frame'.shots = frame.shots + 1
    /\ frame.fn = "saveScreenshot" /\ frame.pending
    /\ ~frame'.pending /\ frame'.pc = "loop"
    /\ frame'.files = Append(frame.files, <<"screenshot", frame.shots>>)

\* drawFrame returning with a request pending: the screenshot is next, in
\* the same iteration
DrawThenSave ==
  (frame.fn = "drawFrame" /\ frame'.fn # "drawFrame") =>
    IF frame.pending
    THEN frame'.fn = "saveScreenshot" /\ frame'.i = frame.i
    ELSE frame'.pc = "loop" /\ frame'.shots = frame.shots

C24_ScreenshotServed ==
  /\ []((frame.pc # "none" /\ ~frame.headless) => ServedInIteration)
  /\ [][frame.pc # "none" /\ ~frame.headless => SavesOne /\ DrawThenSave]_vars

\* an iteration whose poll delivered two presses of P has ended with one
\* screenshot
C24_Witness ==
  /\ ~frame.headless
  /\ frame.pc = "loop"
  /\ frame.presses = 2
  /\ frame.shots = 1
  /\ frame.i = 1

\* ------------------------------------------------------------------------
\* C25: whenever stepPhysics calls findContactPoint (the distance of the
\* integrated centres is <= radiusA + radiusB) on bodies of equal radius,
\* the march bound tMax = dist - radiusB is <= the start value
\* t = radiusA; and whenever tMax <= radiusA the loop body runs zero
\* times, no distance estimator is evaluated inside findContactPoint and
\* the contact point returned is exactly posA + dir*radiusA, at the
\* distance radiusA from A's centre if dir has unit length.
\* ------------------------------------------------------------------------

\* findContactPoint has been called in this tick
ContactFound == InLog("narrow")

\* zero iterations; the contact is the start point of the march
NoMarch ==
  /\ loc.evals = 0
  /\ loc.contact = VAdd(h.aI.position, VScale(loc.dir, a.radius))
  /\ Le(FAbs(Sub(Length(loc.dir), F1)), SepTol) =>
       Le(FAbs(Sub(Length(loc.ra), a.radius)), Mul(SepTol, a.radius))

C25_NoMarchInStep ==
  ContactFound =>
    /\ Le(loc.dist, Add(a.radius, b.radius))
    /\ loc.tMax = Sub(loc.dist, b.radius)
    /\ a.radius = b.radius => Le(loc.tMax, a.radius)
    /\ Le(loc.tMax, a.radius) => NoMarch

\* findContactPoint has returned the start point of the march to
\* stepPhysics for two fractal bodies in contact away from the line's ends
C25_Witness ==
  /\ ContactFound
  /\ a.de = "sierpinski" /\ b.de = "sierpinski"
  /\ Gt(loc.dist, F0)
  /\ Lt(loc.tMax, a.radius)
  /\ NoMarch
  /\ h.touching

\* C25 as stated: whenever stepPhysics calls findContactPoint, tMax is <=
\* radiusA and the loop body runs zero times
C25_NeverMarches == ContactFound => (Le(loc.tMax, a.radius) /\ NoMarch)

\* ------------------------------------------------------------------------
\* C26: the contact point of findContactPoint lies on the line of centres,
\* so that, up to the rounding of the float operations (LeverTol), the
\* lever arms ra and rb are parallel to n: cross(ra,n) = cross(rb,n) = 0,
\* the effective inverse mass is 1/mA + 1/mB, and the normal impulse
\* leaves the angular velocity of both bodies as it was.
\* ------------------------------------------------------------------------
LeverTol == Lit(1, 100000)

\* the normal impulse of this tick has just been applied
ImpulseApplied == pc = "friction"

Small(x) == Le(FAbs(x), LeverTol)

C26_NormalImpulseCentral ==
  ImpulseApplied =>
    /\ Small(Length(Cross(loc.ra, loc.dir)))
    /\ Small(Length(Cross(loc.rb, loc.dir)))
    /\ Small(Length(Cross(loc.ra, loc.n)))
    /\ Small(Length(Cross(loc.rb, loc.n)))
    /\ Small(Sub(loc.invMass, Add(Div(F1, a.mass), Div(F1, b.mass))))
    /\ Small(L1(VSub(a.angularVelocity, h.aI.angularVelocity)))
    /\ Small(L1(VSub(b.angularVelocity, h.bI.angularVelocity)))

\* a normal impulse has been applied to spinning bodies whose line of
\* centres is off the axes and whose speeds it has changed
C26_Witness ==
  /\ ImpulseApplied
  /\ loc.n[2] # F0 /\ loc.n[3] # F0
  /\ loc.ra # VZero /\ loc.rb # VZero
  /\ h.aI.angularVelocity # VZero
  /\ a.velocity # h.aI.velocity

\* ------------------------------------------------------------------------
\* C27: when the friction impulse is applied, it opposes the sliding: the
\* relative tangential velocity of the two contact points is, in
\* magnitude, not greater after the friction impulse than before it
\* (SlideTol allows for the rounding of the float operations).
\* ------------------------------------------------------------------------
SlideTol == Lit(1, 100000)

\* |rv - n*dot(rv,n)| for rv the velocity of B's contact point relative to
\* A's, the bodies being oa and ob
SlidingSpeed(oa, ob) ==
  Length(Tangent(VSub(PointVelocity(ob, loc.rb), PointVelocity(oa, loc.ra)), loc.n))

\* the step that applies the friction impulse
FrictionApplied == pc = "friction" /\ pc' = "correct" /\ h'.friction

C27_FrictionOpposes ==
  [][FrictionApplied => Le(SlidingSpeed(a', b'), Add(SlidingSpeed(a, b), SlideTol))]_vars

\* ------------------------------------------------------------------------
\* C28: the positional de-penetration is applied only in ticks in which a
\* normal impulse is applied (overlap, both DE values below 0.001 and
\* rel < 0); every other tick, that of overlapping bodies that are
\* separating (rel >= 0) included, ends with both bodies at their
\* Euler-integrated positions pos + vel*dt, vel being the velocity after
\* the gravity update.
\* ------------------------------------------------------------------------

\* the positions the integration of this tick gives
EulerA == VAdd(h.a0.position, VScale(h.aG.velocity, dt))

EulerB == VAdd(h.b0.position, VScale(h.bG.velocity, dt))

\* the three conditions of the impulse branch, as this tick evaluated them
ImpulseConditions ==
  /\ h.overlap
  /\ h.touching /\ Lt(loc.da, DeEps) /\ Lt(loc.db, DeEps)
  /\ InLog("response") /\ Lt(loc.rel, F0)

C28_CorrectionOnlyWithImpulse ==
  /\ pc = "correct" => (h.impulse /\ ImpulseConditions)
  /\ pc = "done" =>
       /\ h.impulse <=> ImpulseConditions
       /\ ~h.impulse => (a.position = EulerA /\ b.position = EulerB)
       /\ h.impulse =>
            /\ a.position = VSub(EulerA, Correction(a, b, loc.n, loc.dist))
            /\ b.position = VAdd(EulerB, Correction(a, b, loc.n, loc.dist))

\* a tick of overlapping bodies in contact that are separating has ended
\* with the bodies still penetrating, at their integrated positions
C28_Witness ==
  /\ pc = "done"
  /\ h.overlap /\ h.touching /\ InLog("response")
  /\ Gt(loc.rel, F0)
  /\ ~h.impulse
  /\ Lt(loc.dist, Add(a.radius, b.radius))
  /\ a.position = EulerA /\ b.position = EulerB
  /\ a.position # h.a0.position

\* ------------------------------------------------------------------------
\* C29: along a sequence of ticks that starts with unit orientations, the
\* quaternion that integrateOrientation hands to quatNormalize is never
\* the zero quaternion: its squared norm is the squared norm of the
\* orientation before the call times 1 + dt^2*|w|^2/4 (within GrowTol,
\* relative, for the rounding), hence not less than it, and the length
\* quatNormalize divides by is greater than zero.
\* ------------------------------------------------------------------------
GrowTol == Lit(1, 100000)

\* 1 + dt^2*|w|^2/4
Growth(o) ==
  Add(F1, Div(Mul(Mul(dt, dt), Dot(o.angularVelocity, o.angularVelocity)),
              FromInt(4)))

\* the orientation of o before quatNormalize is applied to it
PreNormal(o) == QuatAdvance(o.orientation, QuatDerivative(o), dt)

\* n1 is n0 * g within the tolerance, is not below n0 and has a positive root
GrowsBy(n0, n1, g) ==
  /\ Le(FAbs(Sub(n1, Mul(n0, g))), Mul(GrowTol, n1))
  /\ Le(Mul(n0, Sub(F1, GrowTol)), n1)
  /\ Gt(Sqrt(n1), F0)

NormGrows(o) ==
  /\ PreNormal(o) # <<F0, F0, F0, F0>>
  /\ GrowsBy(QuatNormSq(o.orientation), QuatNormSq(PreNormal(o)), Growth(o))

NonZero(q) == Gt(QuatNormSq(q), F0) /\ UnitNorm(q)

C29_NormalizeNonZero ==
  /\ [](pc = "spin" => (NonZero(a.orientation) /\ NonZero(b.orientation)))
  /\ [][(pc = "spin" /\ tick' = tick + 1) =>
          /\ NormGrows(a) /\ NormGrows(b)
          /\ a'.orientation = QuatNormalize(PreNormal(a))
          /\ b'.orientation = QuatNormalize(PreNormal(b))]_vars

\* after all the calls of a run a fast spinning body, well turned, is about
\* to be integrated again, and the quaternion to normalise will be longer
\* than 1
C29_Witness ==
  /\ pc = "spin" /\ tick = MaxSpins
  /\ a.angularVelocity = Vec(2, -9, 3, 1)
  /\ dt = Lit(5, 100)
  /\ a.orientation # QIdentity
  /\ Gt(QuatNormSq(PreNormal(a)), Lit(105, 100))

====
